---- MODULE Spec2Model ----
(***************************************************************************)
(* Search-augmented-generation pipeline of the perplexity-clone backend:   *)
(* query decomposition (LangChainClient), multi-query web search           *)
(* (MultiQuerySearchOrchestrator), concurrent content extraction           *)
(* (ContentExtractor), content collation (ContentCollator), answer         *)
(* synthesis (AnswerSynthesizer) and the /search endpoint composing them.  *)
(*                                                                         *)
(* Strings are sequences of characters; a character is a one-character     *)
(* string, or a "U+XXXX" token for a character outside ASCII.              *)
(***************************************************************************)
EXTENDS Integers, Sequences, FiniteSets, TLC

VARIABLES
    client,      \* LangChainClient: its config and its lazily built chain
    dq,          \* the last decompose_query call: inputs, outcome, effects
    chain_calls, \* number of chain.invoke calls made so far
    orch,        \* one MultiQuerySearchOrchestrator.run: its tasks and response
    ex,          \* one ContentExtractor.extract_content_from_urls batch
    col,         \* one ContentCollator.collate call: inputs and collation
    req          \* one /search request: stage by stage, up to the response

vars == <<client, dq, chain_calls, orch, ex, col, req>>

-----------------------------------------------------------------------------
(* Bounds of the model *)

MaxSubQueries == 2   \* largest configured max_sub_queries
MaxQueryLen == 2     \* longest user_query, in characters
MaxLines == 2        \* most lines in a raw model output
MaxCalls == 2        \* most chain invocations followed per client
MaxRunQueries == 2   \* most sub-queries handed to one orchestrator run
MaxPerQuery == 3     \* largest per_query_results
MaxTotal == 3        \* largest max_total_results
MaxUrls == 3         \* most URLs in one extraction batch or collation
MaxConcurrent == 2   \* largest max_concurrent
MaxTextLen == 3      \* longest text a stand-in extractor returns
MaxTotalChars == 4   \* largest max_total_chars given to collate
MaxParseLines == 3   \* most lines in a raw output given to the parser
MaxParseCap == 3     \* largest max_sub_queries given to the parser

-----------------------------------------------------------------------------
(* Strings *)

Range(s) == {s[i] : i \in 1..Len(s)}

SeqsUpTo(S, n) == UNION {[1..k -> S] : k \in 0..n}

\* str.strip() with no argument strips whitespace
Whitespace == {" ", "\t", "\n"}

RECURSIVE LStrip(_, _)
LStrip(s, chars) ==
    IF s = <<>> \/ Head(s) \notin chars THEN s ELSE LStrip(Tail(s), chars)

RECURSIVE RStrip(_, _)
RStrip(s, chars) ==
    IF s = <<>> \/ s[Len(s)] \notin chars
    THEN s
    ELSE RStrip(SubSeq(s, 1, Len(s) - 1), chars)

Strip(s) == RStrip(LStrip(s, Whitespace), Whitespace)

LowerOf ==
    "A" :> "a" @@ "B" :> "b" @@ "C" :> "c" @@ "D" :> "d" @@ "E" :> "e" @@
    "F" :> "f" @@ "G" :> "g" @@ "H" :> "h" @@ "I" :> "i" @@ "J" :> "j" @@
    "K" :> "k" @@ "L" :> "l" @@ "M" :> "m" @@ "N" :> "n" @@ "O" :> "o" @@
    "P" :> "p" @@ "Q" :> "q" @@ "R" :> "r" @@ "S" :> "s" @@ "T" :> "t" @@
    "U" :> "u" @@ "V" :> "v" @@ "W" :> "w" @@ "X" :> "x" @@ "Y" :> "y" @@
    "Z" :> "z"

Lower(s) == [i \in 1..Len(s) |-> IF s[i] \in DOMAIN LowerOf THEN LowerOf[s[i]] ELSE s[i]]

StartsWith(s, p) == Len(s) >= Len(p) /\ SubSeq(s, 1, Len(p)) = p

\* str.splitlines(): a line ends at a line break; a trailing break opens no
\* further line; the empty string has no lines
SplitLines(s) ==
    LET breaks == {i \in 1..Len(s) : s[i] = "\n"}
        ends == breaks \cup (IF s # <<>> /\ s[Len(s)] # "\n" THEN {Len(s) + 1} ELSE {})
        end(k) == CHOOSE i \in ends : Cardinality({j \in ends : j < i}) = k - 1
    IN [k \in 1..Cardinality(ends) |->
           SubSeq(s, (IF k = 1 THEN 1 ELSE end(k - 1) + 1), end(k) - 1)]

RECURSIVE JoinLines(_)
JoinLines(ls) ==
    IF ls = <<>> THEN <<>>
    ELSE IF Len(ls) = 1 THEN ls[1]
    ELSE ls[1] \o <<"\n">> \o JoinLines(Tail(ls))

-----------------------------------------------------------------------------
(* LangChainClient.parse_decomposition_output *)

Digits == {"0", "1", "2", "3", "4", "5", "6", "7", "8", "9"}

\* the argument of lstrip, character by character, as the source file has it
PrefixChars == {"-", "U+00E2", "U+20AC", "U+00A2", "*", ".", " "} \cup Digits

QueriesWord == <<"q", "u", "e", "r", "i", "e", "s">>

NormalizeLine(line) == Strip(LStrip(Strip(line), PrefixChars))

IsQueriesHeader(candidate) ==
    \/ Lower(candidate) = Append(QueriesWord, ":")
    \/ StartsWith(Lower(candidate), QueriesWord)

RECURSIVE ParseLinesNoCap(_, _, _)
ParseLinesNoCap(lines, parsed, max_sub_queries) ==
    IF lines = <<>> THEN parsed
    ELSE LET candidate == NormalizeLine(Head(lines)) IN
         IF candidate = <<>> \/ IsQueriesHeader(candidate)
         THEN ParseLinesNoCap(Tail(lines), parsed, max_sub_queries)
         ELSE ParseLinesNoCap(
                  Tail(lines),
                  IF candidate \notin Range(parsed) THEN Append(parsed, candidate) ELSE parsed,
                  max_sub_queries)

RECURSIVE ParseLinesNoDedup(_, _, _)
ParseLinesNoDedup(lines, parsed, max_sub_queries) ==
    IF lines = <<>> THEN parsed
    ELSE LET candidate == NormalizeLine(Head(lines)) IN
         IF candidate = <<>> \/ IsQueriesHeader(candidate)
         THEN ParseLinesNoDedup(Tail(lines), parsed, max_sub_queries)
         ELSE LET next == Append(parsed, candidate)
              IN IF Len(next) >= max_sub_queries
                 THEN next
                 ELSE ParseLinesNoDedup(Tail(lines), next, max_sub_queries)

\* the for loop of parse_decomposition_output; seen is Range(parsed)
RECURSIVE ParseLines(_, _, _)
ParseLines(lines, parsed, max_sub_queries) ==
    IF lines = <<>> THEN parsed
    ELSE LET candidate == NormalizeLine(Head(lines)) IN
         IF candidate = <<>> THEN ParseLines(Tail(lines), parsed, max_sub_queries)
         ELSE IF IsQueriesHeader(candidate)
         THEN ParseLines(Tail(lines), parsed, max_sub_queries)
         ELSE LET next == IF candidate \notin Range(parsed)
                          THEN Append(parsed, candidate)
                          ELSE parsed
              IN IF Len(next) >= max_sub_queries
                 THEN next
                 ELSE ParseLines(Tail(lines), next, max_sub_queries)

parse_decomposition_output(raw_output, max_sub_queries) ==
    IF raw_output = <<>> THEN <<>>
    ELSE ParseLines(SplitLines(raw_output), <<>>, max_sub_queries)

-----------------------------------------------------------------------------
(* LangChainClient.decompose_query *)

\* what the language model does when the chain is built and invoked
ModelBehaviours == {"build_raises", "invoke_raises", "returns"}

\* The outcome of one decompose_query call on a client:
\*   exc      "ValueError" when the call raises, "none" when it returns
\*   value    the returned list of sub-queries
\*   chain    the client's _decomposition_chain after the call
\*   invoked  whether chain.invoke was called
DecomposeNoTrimFallback(c, user_query, behaviour, raw_output) ==
    LET cleaned_query == Strip(user_query) IN
    IF cleaned_query = <<>>
    THEN [exc |-> "ValueError", value |-> <<>>, chain |-> c.chain, invoked |-> FALSE]
    ELSE IF ~c.configured
    THEN [exc |-> "none", value |-> <<user_query>>, chain |-> c.chain, invoked |-> FALSE]
    ELSE IF c.chain = "None" /\ behaviour = "build_raises"
    THEN [exc |-> "none", value |-> <<user_query>>, chain |-> "None", invoked |-> FALSE]
    ELSE IF behaviour = "invoke_raises"
    THEN [exc |-> "none", value |-> <<user_query>>, chain |-> "built", invoked |-> TRUE]
    ELSE LET sub_queries == parse_decomposition_output(raw_output, c.max_sub_queries) IN
         [exc |-> "none",
          value |-> IF sub_queries = <<>> THEN <<user_query>> ELSE sub_queries,
          chain |-> "built", invoked |-> TRUE]

DecomposeUncaught(c, user_query, behaviour, raw_output) ==
    LET cleaned_query == Strip(user_query) IN
    IF cleaned_query = <<>>
    THEN [exc |-> "ValueError", value |-> <<>>, chain |-> c.chain, invoked |-> FALSE]
    ELSE IF ~c.configured
    THEN [exc |-> "none", value |-> <<cleaned_query>>, chain |-> c.chain, invoked |-> FALSE]
    ELSE IF c.chain = "None" /\ behaviour = "build_raises"
    THEN [exc |-> "Exception", value |-> <<>>, chain |-> "None", invoked |-> FALSE]
    ELSE IF behaviour = "invoke_raises"
    THEN [exc |-> "Exception", value |-> <<>>, chain |-> "built", invoked |-> TRUE]
    ELSE LET sub_queries == parse_decomposition_output(raw_output, c.max_sub_queries) IN
         [exc |-> "none",
          value |-> IF sub_queries = <<>> THEN <<cleaned_query>> ELSE sub_queries,
          chain |-> "built", invoked |-> TRUE]

decompose_query(c, user_query, behaviour, raw_output) ==
    LET cleaned_query == Strip(user_query) IN
    IF cleaned_query = <<>>
    THEN [exc |-> "ValueError", value |-> <<>>, chain |-> c.chain, invoked |-> FALSE]
    ELSE IF ~c.configured
    THEN [exc |-> "none", value |-> <<cleaned_query>>, chain |-> c.chain, invoked |-> FALSE]
    ELSE IF c.chain = "None" /\ behaviour = "build_raises"
    THEN \* _ensure_decomposition_chain raises inside the try
         [exc |-> "none", value |-> <<cleaned_query>>, chain |-> "None", invoked |-> FALSE]
    ELSE IF behaviour = "invoke_raises"
    THEN [exc |-> "none", value |-> <<cleaned_query>>, chain |-> "built", invoked |-> TRUE]
    ELSE LET sub_queries == parse_decomposition_output(raw_output, c.max_sub_queries) IN
         [exc |-> "none",
          value |-> IF sub_queries = <<>> THEN <<cleaned_query>> ELSE sub_queries,
          chain |-> "built", invoked |-> TRUE]

-----------------------------------------------------------------------------
(* Inputs of the decomposition specification *)

QueryChars == {" ", "a"}
UserQueries == SeqsUpTo(QueryChars, MaxQueryLen)

\* lines a model may emit: plain, numbered, bulleted, blank, a header
OutputLines ==
    { <<"a">>,
      <<"1", ".", " ", "a">>,
      <<"-", " ", "b">>,
      <<>>,
      <<"Q", "u", "e", "r", "i", "e", "s", ":">> }

RawOutputs == {JoinLines(ls) : ls \in SeqsUpTo(OutputLines, MaxLines)}

NoCall ==
    [called |-> FALSE, user_query |-> <<>>, behaviour |-> "returns",
     raw_output |-> <<>>, chain_before |-> "None",
     exc |-> "none", value |-> <<>>, invoked |-> FALSE]

\* the parts of the state a specification does not exercise stay here
Unused == [pc |-> "unused"]

InitDecompose ==
    /\ client \in [configured : BOOLEAN,
                   max_sub_queries : 0..MaxSubQueries,
                   chain : {"None"}]
    /\ dq = NoCall
    /\ chain_calls = 0
    /\ orch = Unused
    /\ ex = Unused
    /\ col = Unused
    /\ req = Unused

\* a model that does not return has no output
ModelOutcomes ==
    {<<b, <<>>>> : b \in {"build_raises", "invoke_raises"}}
        \cup {<<"returns", raw>> : raw \in RawOutputs}

DecomposeQuery ==
    /\ ~dq.called
    /\ chain_calls < MaxCalls
    /\ \E user_query \in UserQueries, m \in ModelOutcomes :
        LET behaviour == m[1]
            raw_output == m[2]
            r == decompose_query(client, user_query, behaviour, raw_output) IN
        /\ dq' = [called |-> TRUE, user_query |-> user_query, behaviour |-> behaviour,
                  raw_output |-> raw_output, chain_before |-> client.chain,
                  exc |-> r.exc, value |-> r.value, invoked |-> r.invoked]
        /\ client' = [client EXCEPT !.chain = r.chain]
        /\ chain_calls' = chain_calls + (IF r.invoked THEN 1 ELSE 0)
        /\ UNCHANGED <<orch, ex, col, req>>

\* the caller drops the returned list; the client lives on for the next call
DecomposeReturn ==
    /\ dq.called
    /\ dq' = NoCall
    /\ UNCHANGED <<client, chain_calls, orch, ex, col, req>>

NextDecompose == DecomposeQuery \/ DecomposeReturn

SpecDecompose == InitDecompose /\ [][NextDecompose]_vars

-----------------------------------------------------------------------------
(* Inputs of the parsing specification *)

\* lines of a raw output: plain, numbered, dashed, bulleted with U+2022, led by
\* U+20AC, blank, a header, and a line differing from another in case only
ParseInputLines ==
    { <<"a">>,
      <<"b">>,
      <<"1", ".", " ", "a">>,
      <<"-", " ", "b">>,
      <<"U+2022", " ", "b">>,
      <<"U+20AC", "a">>,
      <<>>,
      <<"Q", "u", "e", "r", "i", "e", "s", ":">>,
      <<"A">> }

\* the output of tests/test_langchain_client.py:25-27, line by line
MarsLines ==
    << <<
          "1", ".", " ", "h", "i", "s", "t", "o", "r", "y", " ", "o", "f",
          " ", "m", "a", "r", "s" >>,
       <<
          "-", " ", "h", "i", "s", "t", "o", "r", "y", " ", "o", "f", " ",
          "m", "a", "r", "s", " ", "m", "i", "s", "s", "i", "o", "n", "s" >>,
       <<>>,
       <<"M", "a", "r", "s", " ", "w", "e", "a", "t", "h", "e", "r">> >>

ParseInputs ==
    {JoinLines(ls) : ls \in SeqsUpTo(ParseInputLines, MaxParseLines)}
        \cup {JoinLines(MarsLines)}

\* one parse_decomposition_output call: its arguments and the list returned
ParseIdle == [pc |-> "idle", raw_output |-> <<>>, max_sub_queries |-> 0, parsed |-> <<>>]

InitParse ==
    /\ dq = ParseIdle
    /\ client = Unused
    /\ chain_calls = 0
    /\ orch = Unused
    /\ ex = Unused
    /\ col = Unused
    /\ req = Unused

ParseOutput ==
    /\ dq.pc = "idle"
    /\ \E raw_output \in ParseInputs, max_sub_queries \in 0..MaxParseCap :
        dq' = [pc |-> "parsed", raw_output |-> raw_output,
               max_sub_queries |-> max_sub_queries,
               parsed |-> parse_decomposition_output(raw_output, max_sub_queries)]
    /\ UNCHANGED <<client, chain_calls, orch, ex, col, req>>

\* the caller takes the list
ParseReturn ==
    /\ dq.pc = "parsed"
    /\ dq' = ParseIdle
    /\ UNCHANGED <<client, chain_calls, orch, ex, col, req>>

NextParse == ParseOutput \/ ParseReturn

SpecParse == InitParse /\ [][NextParse]_vars

-----------------------------------------------------------------------------
(* Web search capability: WebSearchService.search over a fixed index *)

\* what the provider finds for a query, best first; "" is a result whose
\* link the provider left out (item.get("link", ""))
WebIndex(query) ==
    CASE query = <<"a">> -> <<"u1", "u2">>
      [] query = <<"b">> -> <<"u2", "u3">>
      [] query = <<"c">> -> <<"", "u4", "u4">>
      [] OTHER -> <<>>

Take(s, n) == SubSeq(s, 1, IF n < Len(s) THEN n ELSE Len(s))

SearchResult(url) == [title |-> <<"title of", url>>, url |-> url]

\* WebSearchService.search: [exc |-> "none", value |-> results] or a raise
web_search(query, max_results, provider_fails) ==
    IF Strip(query) = <<>> THEN [exc |-> "ValueError", value |-> <<>>]
    ELSE IF max_results <= 0 THEN [exc |-> "ValueError", value |-> <<>>]
    ELSE IF provider_fails THEN [exc |-> "Exception", value |-> <<>>]
    ELSE LET found == Take(WebIndex(Strip(query)), max_results) IN
         [exc |-> "none", value |-> [i \in 1..Len(found) |-> SearchResult(found[i])]]

-----------------------------------------------------------------------------
(* MultiQuerySearchOrchestrator.run *)

None == "None"

CleanSubQueriesUntrimmed(sub_queries) ==
    SelectSeq(sub_queries, LAMBDA q : q # <<>>)

\* blank sub-queries are dropped, the others trimmed, order kept
CleanSubQueries(sub_queries) ==
    LET trimmed == [i \in 1..Len(sub_queries) |-> Strip(sub_queries[i])]
    IN SelectSeq(trimmed, LAMBDA q : q # <<>>)

\* one search call, wrapped: a raise becomes an outcome with an error
SearchOutcomeSilent(query, per_query_results, provider_fails) ==
    LET r == web_search(query, per_query_results, provider_fails) IN
    [query |-> query, results |-> Take(r.value, per_query_results), error |-> None]

SearchOutcome(query, per_query_results, provider_fails) ==
    LET r == web_search(query, per_query_results, provider_fails) IN
    IF r.exc = "none"
    THEN [query |-> query, results |-> Take(r.value, per_query_results), error |-> None]
    ELSE [query |-> query, results |-> <<>>, error |-> r.exc]

\* the outcomes of the finished tasks, in completion order
GatherByCompletion(finished, n) == [k \in 1..n |-> finished[k].outcome]

\* the outcomes of the finished tasks, in sub-query order
GatherOutcomes(finished, n) ==
    [i \in 1..n |->
        LET k == CHOOSE k \in 1..Len(finished) : finished[k].index = i
        IN finished[k].outcome]

RECURSIVE AddUrlsNoDedup(_, _, _)
AddUrlsNoDedup(results, aggregated, max_total_results) ==
    IF results = <<>> \/ Len(aggregated) >= max_total_results THEN aggregated
    ELSE AddUrlsNoDedup(
             Tail(results),
             IF Head(results).url # "" THEN Append(aggregated, Head(results).url)
             ELSE aggregated,
             max_total_results)

\* the inner walk: one outcome's results, in order
RECURSIVE AddUrls(_, _, _)
AddUrls(results, aggregated, max_total_results) ==
    IF results = <<>> \/ Len(aggregated) >= max_total_results THEN aggregated
    ELSE LET url == Head(results).url IN
         AddUrls(
             Tail(results),
             IF url # "" /\ url \notin Range(aggregated)
             THEN Append(aggregated, url)
             ELSE aggregated,
             max_total_results)

\* the outer walk: outcomes in sub-query order
RECURSIVE AggregateUrls(_, _, _)
AggregateUrls(outcomes, aggregated, max_total_results) ==
    IF outcomes = <<>> THEN aggregated
    ELSE AggregateUrls(
             Tail(outcomes),
             AddUrls(Head(outcomes).results, aggregated, max_total_results),
             max_total_results)

MultiSearchResponseCapped(sub_queries, outcomes, aggregated) ==
    [sub_queries |-> sub_queries,
     per_query_outcomes |->
         [i \in 1..Len(outcomes) |->
             [outcomes[i] EXCEPT
                 !.results = SelectSeq(@, LAMBDA r : r.url \in Range(aggregated))]],
     aggregated_urls |-> aggregated]

MultiSearchResponse(sub_queries, outcomes, aggregated) ==
    [sub_queries |-> sub_queries,
     per_query_outcomes |-> outcomes,
     aggregated_urls |-> aggregated]

RunQueries == {<<"a">>, <<"b">>, <<" ", "c">>, <<" ">>}

OrchIdle ==
    [pc |-> "idle", input |-> <<>>, sub_queries |-> <<>>,
     per_query_results |-> 0, max_total_results |-> 0,
     calls |-> <<>>, pending |-> {}, failed |-> {}, finished |-> <<>>,
     response |-> None]

InitOrch ==
    /\ orch = OrchIdle
    /\ client = Unused
    /\ dq = Unused
    /\ chain_calls = 0
    /\ ex = Unused
    /\ col = Unused
    /\ req = Unused

\* run(): filter, then launch one search per remaining sub-query, all at once
OrchRun ==
    /\ orch.pc = "idle"
    /\ \E sub_queries \in SeqsUpTo(RunQueries, MaxRunQueries),
          per_query_results \in 0..MaxPerQuery,
          max_total_results \in 0..MaxTotal :
        LET cleaned == CleanSubQueries(sub_queries) IN
        orch' = IF cleaned = <<>>
                THEN [OrchIdle EXCEPT
                        !.pc = "done", !.input = sub_queries,
                        !.per_query_results = per_query_results,
                        !.max_total_results = max_total_results,
                        !.response = MultiSearchResponse(<<>>, <<>>, <<>>)]
                ELSE [OrchIdle EXCEPT
                        !.pc = "searching", !.input = sub_queries,
                        !.sub_queries = cleaned,
                        !.per_query_results = per_query_results,
                        !.max_total_results = max_total_results,
                        !.calls = [i \in 1..Len(cleaned) |-> <<cleaned[i], per_query_results>>],
                        !.pending = 1..Len(cleaned)]
    /\ UNCHANGED <<client, dq, chain_calls, ex, col, req>>

\* one search call comes back, with results or with a raise, in any order
SearchCompletes ==
    /\ orch.pc = "searching"
    /\ \E i \in orch.pending, provider_fails \in BOOLEAN :
        LET outcome == SearchOutcome(orch.sub_queries[i], orch.per_query_results,
                                     provider_fails)
        IN orch' = [orch EXCEPT
                      !.pending = @ \ {i},
                      !.failed = IF outcome.error # None THEN @ \cup {i} ELSE @,
                      !.finished = Append(@, [index |-> i, outcome |-> outcome])]
    /\ UNCHANGED <<client, dq, chain_calls, ex, col, req>>

\* every call is back: outcomes are put in sub-query order and aggregated
OrchCollect ==
    /\ orch.pc = "searching"
    /\ orch.pending = {}
    /\ LET outcomes == GatherOutcomes(orch.finished, Len(orch.sub_queries))
           aggregated == AggregateUrls(outcomes, <<>>, orch.max_total_results)
       IN orch' = [orch EXCEPT
                     !.pc = "done",
                     !.response = MultiSearchResponse(orch.sub_queries, outcomes, aggregated)]
    /\ UNCHANGED <<client, dq, chain_calls, ex, col, req>>

NextOrch == OrchRun \/ SearchCompletes \/ OrchCollect

SpecOrch == InitOrch /\ [][NextOrch]_vars

-----------------------------------------------------------------------------
(* ContentExtractor: one URL *)

\* A text is known by the page it was extracted from and by its length: it is
\* the first len characters of what the extractor produced for src.
Text(src, len) == [src |-> src, len |-> len]
EmptyText == Text("", 0)

PrefixOffByOne(text, n) ==
    IF n > text.len THEN text ELSE IF n <= 1 THEN EmptyText ELSE Text(text.src, n - 1)

\* text[:n]
Prefix(text, n) == IF n >= text.len THEN text ELSE IF n <= 0 THEN EmptyText ELSE Text(text.src, n)

max_content_length == 50000
MinExtractedLength == 50
EllipsisLength == 3

\* What a URL serves: how the fetch ends, how many characters each extractor
\* finds in the page (0: nothing, or the extractor raised and returned None),
\* and whether something else raises while the page is processed.
FetchEnds == {"ok", "http_error", "not_html", "network_error"}

Page(fetch, trafilatura, soup, raises) ==
    [fetch |-> fetch, trafilatura |-> trafilatura, soup |-> soup, raises |-> raises]

Pages ==
    { Page("http_error", 0, 0, FALSE),
      Page("not_html", 0, 0, FALSE),
      Page("network_error", MinExtractedLength + 10, 0, FALSE),
      Page("ok", MinExtractedLength + 10, MinExtractedLength + 20, FALSE),
      Page("ok", MinExtractedLength, MinExtractedLength + 1, FALSE),
      Page("ok", 0, MinExtractedLength, FALSE),
      Page("ok", max_content_length + 1, 0, FALSE),
      Page("ok", 0, max_content_length + 1, FALSE),
      Page("ok", MinExtractedLength + 10, 0, TRUE) }

\* _fetch_html_content: the body, or None on any failure
FetchHtmlContent(page) == IF page.fetch = "ok" THEN "html" ELSE None

\* _extract_with_trafilatura / _extract_with_beautifulsoup: the length gate
ExtractWithTrafilatura(page) ==
    IF page.trafilatura > MinExtractedLength THEN page.trafilatura ELSE 0

ExtractWithBeautifulSoup(page) ==
    IF page.soup > MinExtractedLength THEN page.soup ELSE 0

TruncateContentBare(len) ==
    IF len > max_content_length THEN max_content_length ELSE len

\* extracted_text[:self.max_content_length] + "...", by its length
TruncateContent(len) ==
    IF len > max_content_length THEN max_content_length + EllipsisLength ELSE len

ExtractionResult(url, title, text, method, success, error) ==
    [kind |-> "result", url |-> url, title |-> title, extracted_text |-> text,
     extraction_method |-> method, success |-> success, error_message |-> error]

\* what gather(return_exceptions=True) hands back for a task that raised
RaisedException(url) ==
    [kind |-> "exception", url |-> url, title |-> "", extracted_text |-> EmptyText,
     extraction_method |-> "failed", success |-> FALSE, error_message |-> "raised"]

ExtractSingleUrlUncaught(url, page) ==
    IF page.raises THEN RaisedException(url)
    ELSE IF FetchHtmlContent(page) = None
    THEN ExtractionResult(url, "", EmptyText, "failed", FALSE, "Failed to fetch HTML content")
    ELSE IF ExtractWithTrafilatura(page) > 0
    THEN ExtractionResult(url, "title", Text(url, TruncateContent(ExtractWithTrafilatura(page))),
                          "trafilatura", TRUE, None)
    ELSE IF ExtractWithBeautifulSoup(page) > 0
    THEN ExtractionResult(url, "title", Text(url, TruncateContent(ExtractWithBeautifulSoup(page))),
                          "beautifulsoup", TRUE, None)
    ELSE ExtractionResult(url, "title", EmptyText, "failed", FALSE,
                          "No content could be extracted")

ExtractSingleUrlFallbackFirst(url, page) ==
    IF page.raises
    THEN ExtractionResult(url, "", EmptyText, "failed", FALSE, "raised")
    ELSE IF FetchHtmlContent(page) = None
    THEN ExtractionResult(url, "", EmptyText, "failed", FALSE, "Failed to fetch HTML content")
    ELSE IF ExtractWithBeautifulSoup(page) > 0
    THEN ExtractionResult(url, "title", Text(url, TruncateContent(ExtractWithBeautifulSoup(page))),
                          "beautifulsoup", TRUE, None)
    ELSE IF ExtractWithTrafilatura(page) > 0
    THEN ExtractionResult(url, "title", Text(url, TruncateContent(ExtractWithTrafilatura(page))),
                          "trafilatura", TRUE, None)
    ELSE ExtractionResult(url, "title", EmptyText, "failed", FALSE,
                          "No content could be extracted")

\* _extract_content_from_single_url
extract_content_from_single_url(url, page) ==
    IF page.raises
    THEN \* except Exception: a failed result carrying str(e)
         ExtractionResult(url, "", EmptyText, "failed", FALSE, "raised")
    ELSE IF FetchHtmlContent(page) = None
    THEN ExtractionResult(url, "", EmptyText, "failed", FALSE, "Failed to fetch HTML content")
    ELSE IF ExtractWithTrafilatura(page) > 0
    THEN ExtractionResult(url, "title", Text(url, TruncateContent(ExtractWithTrafilatura(page))),
                          "trafilatura", TRUE, None)
    ELSE IF ExtractWithBeautifulSoup(page) > 0
    THEN ExtractionResult(url, "title", Text(url, TruncateContent(ExtractWithBeautifulSoup(page))),
                          "beautifulsoup", TRUE, None)
    ELSE ExtractionResult(url, "title", EmptyText, "failed", FALSE,
                          "No content could be extracted")

-----------------------------------------------------------------------------
(* ContentExtractor.extract_content_from_urls: the batch *)

UrlPool == <<"u1", "u2", "u3">>

\* a list of n URLs; beyond the pool the list repeats itself
BatchUrls(n) == [i \in 1..n |-> UrlPool[((i - 1) % Len(UrlPool)) + 1]]

\* async with semaphore: a task enters when the semaphore's value is positive
SemaphoreAlwaysFree(value) == TRUE

SemaphoreFree(value) == value > 0

\* the results gather returned that are ContentExtractionResult objects
ValidResults(results) == SelectSeq(results, LAMBDA r : r.kind = "result")

ExIdle ==
    [pc |-> "idle", urls |-> <<>>, max_concurrent |-> 0, semaphore |-> 0,
     task |-> <<>>, pages |-> <<>>, results |-> <<>>, first_done |-> 0,
     returned |-> <<>>]

InitExtract ==
    /\ ex = ExIdle
    /\ client = Unused
    /\ dq = Unused
    /\ chain_calls = 0
    /\ orch = Unused
    /\ col = Unused
    /\ req = Unused

\* extract_content_from_urls up to its await: the semaphore and one task per URL
ExtractStart ==
    /\ ex.pc = "idle"
    /\ \E n \in 0..MaxUrls, max_concurrent \in (0 - 1)..MaxConcurrent :
        ex' = IF n = 0
              THEN [ExIdle EXCEPT !.pc = "done", !.max_concurrent = max_concurrent]
              ELSE IF max_concurrent < 0
              THEN \* asyncio.Semaphore refuses a negative value: ValueError
                   [ExIdle EXCEPT !.pc = "raised", !.urls = BatchUrls(n),
                                  !.max_concurrent = max_concurrent]
              ELSE [ExIdle EXCEPT
                      !.pc = "running", !.urls = BatchUrls(n),
                      !.max_concurrent = max_concurrent,
                      !.semaphore = max_concurrent,
                      !.task = [i \in 1..n |-> "waiting"],
                      !.pages = [i \in 1..n |-> [kind |-> "pending"]],
                      !.results = [i \in 1..n |-> [kind |-> "pending"]]]
    /\ UNCHANGED <<client, dq, chain_calls, orch, col, req>>

\* a task enters the semaphore and starts on its URL
AcquireSlot ==
    /\ ex.pc = "running"
    /\ \E i \in 1..Len(ex.urls) :
        /\ ex.task[i] = "waiting"
        /\ SemaphoreFree(ex.semaphore)
        /\ ex' = [ex EXCEPT !.task[i] = "extracting", !.semaphore = @ - 1]
    /\ UNCHANGED <<client, dq, chain_calls, orch, col, req>>

ExtractionEndsRetrying ==
    /\ ex.pc = "running"
    /\ \E i \in 1..Len(ex.urls), page \in Pages :
        /\ ex.task[i] = "extracting"
        /\ LET result == extract_content_from_single_url(ex.urls[i], page) IN
           ex' = [ex EXCEPT
                    !.task[i] = IF result.success THEN "done" ELSE "waiting",
                    !.pages[i] = page,
                    !.results[i] = result,
                    !.first_done = IF @ = 0 THEN i ELSE @,
                    !.semaphore = @ + 1]
    /\ UNCHANGED <<client, dq, chain_calls, orch, col, req>>

ExtractionEndsKeepingSlot ==
    /\ ex.pc = "running"
    /\ \E i \in 1..Len(ex.urls), page \in Pages :
        /\ ex.task[i] = "extracting"
        /\ LET result == extract_content_from_single_url(ex.urls[i], page) IN
           ex' = [ex EXCEPT
                    !.task[i] = "done",
                    !.pages[i] = page,
                    !.results[i] = result,
                    !.first_done = IF @ = 0 THEN i ELSE @,
                    !.semaphore = IF result.success THEN @ + 1 ELSE @]
    /\ UNCHANGED <<client, dq, chain_calls, orch, col, req>>

\* a task ends, by a result or by an exception, and leaves the semaphore;
\* first_done is the task of the batch that ended first
ExtractionEnds ==
    /\ ex.pc = "running"
    /\ \E i \in 1..Len(ex.urls), page \in Pages :
        /\ ex.task[i] = "extracting"
        /\ ex' = [ex EXCEPT
                    !.task[i] = "done",
                    !.pages[i] = page,
                    !.results[i] = extract_content_from_single_url(ex.urls[i], page),
                    !.first_done = IF @ = 0 THEN i ELSE @,
                    !.semaphore = @ + 1]
    /\ UNCHANGED <<client, dq, chain_calls, orch, col, req>>

ExtractGatherFirstDoneFirst ==
    /\ ex.pc = "running"
    /\ \A i \in 1..Len(ex.urls) : ex.task[i] = "done"
    /\ ex' = [ex EXCEPT
                !.pc = "done",
                !.returned =
                    ValidResults(<<ex.results[ex.first_done]>>
                                 \o SelectSeq(ex.results,
                                              LAMBDA r : r # ex.results[ex.first_done]))]
    /\ UNCHANGED <<client, dq, chain_calls, orch, col, req>>

\* gather returns, in task order; what is not a result is logged and dropped
ExtractGather ==
    /\ ex.pc = "running"
    /\ \A i \in 1..Len(ex.urls) : ex.task[i] = "done"
    /\ ex' = [ex EXCEPT !.pc = "done", !.returned = ValidResults(ex.results)]
    /\ UNCHANGED <<client, dq, chain_calls, orch, col, req>>

NextExtract == ExtractStart \/ AcquireSlot \/ ExtractionEnds \/ ExtractGather

SpecExtract == InitExtract /\ [][NextExtract]_vars

\* The batch under the event loop's scheduling: a task that can enter the
\* semaphore does, an extraction under way ends (its fetch completes or
\* fails), and gather returns once every task has ended.
SpecExtractFair ==
    /\ SpecExtract
    /\ WF_<<ex.pc, ex.task>>(AcquireSlot)
    /\ WF_<<ex.pc, ex.task>>(ExtractionEnds)
    /\ WF_<<ex.pc, ex.task>>(ExtractGather)

-----------------------------------------------------------------------------
(* The two fan-outs: one orchestrator run, or one extraction batch *)

SpecFanOut == (InitOrch \/ InitExtract) /\ [][NextOrch \/ NextExtract]_vars

-----------------------------------------------------------------------------
(* ContentCollator.collate *)

CollatedDocument(url, title, text, method) ==
    [url |-> url, title |-> title, text |-> text, extraction_method |-> method]

\* f"{result.url}: {result.error_message}"
FailureDetail(result) == <<result.url, ": ", result.error_message>>

WalkState(documents, total_chars, truncated_count, failure_details) ==
    [documents |-> documents, total_chars |-> total_chars,
     truncated_count |-> truncated_count, failure_details |-> failure_details]

RECURSIVE CollateWalkUntruncated(_, _, _)
CollateWalkUntruncated(results, w, max_total_chars) ==
    IF results = <<>> THEN w
    ELSE LET result == Head(results) IN
         IF ~result.success
         THEN CollateWalkUntruncated(
                  Tail(results),
                  [w EXCEPT !.failure_details = Append(@, FailureDetail(result))],
                  max_total_chars)
         ELSE LET text == result.extracted_text IN
              IF text.len = 0 THEN CollateWalkUntruncated(Tail(results), w, max_total_chars)
              ELSE LET next ==
                           WalkState(
                               Append(w.documents,
                                      CollatedDocument(result.url, result.title, text,
                                                       result.extraction_method)),
                               w.total_chars + text.len,
                               w.truncated_count,
                               w.failure_details)
                   IN IF next.total_chars >= max_total_chars THEN next
                      ELSE CollateWalkUntruncated(Tail(results), next, max_total_chars)

RECURSIVE CollateWalkUnstopped(_, _, _)
CollateWalkUnstopped(results, w, max_total_chars) ==
    IF results = <<>> THEN w
    ELSE LET result == Head(results) IN
         IF ~result.success
         THEN CollateWalkUnstopped(
                  Tail(results),
                  [w EXCEPT !.failure_details = Append(@, FailureDetail(result))],
                  max_total_chars)
         ELSE LET truncated == w.total_chars + result.extracted_text.len > max_total_chars
                  room == IF max_total_chars - w.total_chars > 0
                          THEN max_total_chars - w.total_chars
                          ELSE 0
                  text == IF truncated
                          THEN Prefix(result.extracted_text, room)
                          ELSE result.extracted_text
              IN IF text.len = 0 THEN CollateWalkUnstopped(Tail(results), w, max_total_chars)
                 ELSE CollateWalkUnstopped(
                          Tail(results),
                          WalkState(
                              Append(w.documents,
                                     CollatedDocument(result.url, result.title, text,
                                                      result.extraction_method)),
                              w.total_chars + text.len,
                              w.truncated_count + (IF truncated THEN 1 ELSE 0),
                              w.failure_details),
                          max_total_chars)

\* the for loop over extraction_results
RECURSIVE CollateWalk(_, _, _)
CollateWalk(results, w, max_total_chars) ==
    IF results = <<>> THEN w
    ELSE LET result == Head(results) IN
         IF ~result.success
         THEN CollateWalk(
                  Tail(results),
                  [w EXCEPT !.failure_details = Append(@, FailureDetail(result))],
                  max_total_chars)
         ELSE LET truncated == w.total_chars + result.extracted_text.len > max_total_chars
                  room == IF max_total_chars - w.total_chars > 0
                          THEN max_total_chars - w.total_chars
                          ELSE 0
                  text == IF truncated
                          THEN Prefix(result.extracted_text, room)
                          ELSE result.extracted_text
              IN IF text.len = 0 THEN CollateWalk(Tail(results), w, max_total_chars)
                 ELSE LET next ==
                              WalkState(
                                  Append(w.documents,
                                         CollatedDocument(result.url, result.title, text,
                                                          result.extraction_method)),
                                  w.total_chars + text.len,
                                  w.truncated_count + (IF truncated THEN 1 ELSE 0),
                                  w.failure_details)
                      IN IF next.total_chars >= max_total_chars THEN next
                         ELSE CollateWalk(Tail(results), next, max_total_chars)

\* "\n\n".join(doc.text for doc in documents)
RECURSIVE JoinTexts(_)
JoinTexts(documents) ==
    IF documents = <<>> THEN <<>>
    ELSE IF Len(documents) = 1 THEN <<documents[1].text>>
    ELSE <<documents[1].text, "\n\n">> \o JoinTexts(Tail(documents))

CollationSummaryByDetails(total_urls, successes, failures, truncated, failure_details) ==
    [total_urls |-> total_urls, successes |-> successes,
     failures |-> Len(failure_details),
     truncated |-> truncated, failure_details |-> failure_details]

CollationSummaryUncounted(total_urls, successes, failures, truncated, failure_details) ==
    [total_urls |-> total_urls, successes |-> successes, failures |-> failures,
     truncated |-> 0, failure_details |-> failure_details]

CollationSummary(total_urls, successes, failures, truncated, failure_details) ==
    [total_urls |-> total_urls, successes |-> successes, failures |-> failures,
     truncated |-> truncated, failure_details |-> failure_details]

CollateAlwaysExtracting(urls, extraction_results, max_total_chars) ==
    LET w == CollateWalk(extraction_results, WalkState(<<>>, 0, 0, <<>>),
                         max_total_chars)
    IN [documents |-> w.documents,
        summary |-> CollationSummary(Len(urls), Len(w.documents),
                                     Len(urls) - Len(w.documents),
                                     w.truncated_count, w.failure_details),
        concatenated_text |-> JoinTexts(w.documents),
        extractor_called |-> TRUE]

\* collate, given what the extractor returns for the URLs when it is called
collate(urls, extraction_results, max_total_chars) ==
    IF urls = <<>>
    THEN [documents |-> <<>>,
          summary |-> CollationSummary(0, 0, 0, 0, <<>>),
          concatenated_text |-> <<>>,
          extractor_called |-> FALSE]
    ELSE LET w == CollateWalk(extraction_results, WalkState(<<>>, 0, 0, <<>>),
                              max_total_chars)
         IN [documents |-> w.documents,
             summary |-> CollationSummary(Len(urls), Len(w.documents),
                                          Len(urls) - Len(w.documents),
                                          w.truncated_count, w.failure_details),
             concatenated_text |-> JoinTexts(w.documents),
             extractor_called |-> TRUE]

\* Extraction results as a stand-in extractor may return them for a URL: a
\* failure, or a success with a text of any length (None and "" have length 0)
StubResults(url) ==
    {ExtractionResult(url, "", EmptyText, "failed", FALSE, "boom")}
        \cup {ExtractionResult(url, "Title", Text(url, len), "trafilatura", TRUE, None) :
                len \in 0..MaxTextLen}

StubResultLists(urls) ==
    {rs \in [1..Len(urls) -> UNION {StubResults(urls[i]) : i \in 1..Len(urls)}] :
        \A i \in 1..Len(urls) : rs[i] \in StubResults(urls[i])}

ColIdle ==
    [pc |-> "idle", urls |-> <<>>, extraction_results |-> <<>>,
     max_total_chars |-> 0, collation |-> None]

InitCollate ==
    /\ col = ColIdle
    /\ client = Unused
    /\ dq = Unused
    /\ chain_calls = 0
    /\ orch = Unused
    /\ ex = Unused
    /\ req = Unused

Collate ==
    /\ col.pc = "idle"
    /\ \E n \in 0..MaxUrls, max_total_chars \in (0 - 1)..MaxTotalChars :
        \E extraction_results \in StubResultLists(BatchUrls(n)) :
            col' = [pc |-> "done", urls |-> BatchUrls(n),
                    extraction_results |-> extraction_results,
                    max_total_chars |-> max_total_chars,
                    collation |-> collate(BatchUrls(n), extraction_results,
                                          max_total_chars)]
    /\ UNCHANGED <<client, dq, chain_calls, orch, ex, req>>

\* the collation is handed on and the collator takes its next call
CollateReturn ==
    /\ col.pc = "done"
    /\ col' = ColIdle
    /\ UNCHANGED <<client, dq, chain_calls, orch, ex, req>>

\* the call of tests/test_content_collator.py:29-48: a 10-character document
\* and a failure, under max_total_chars = 5
CollateFixture ==
    /\ col.pc = "idle"
    /\ LET urls == <<"u1", "u2">>
           extraction_results ==
               << ExtractionResult("u1", "Title", Text("u1", 10), "trafilatura", TRUE, None),
                  ExtractionResult("u2", "Title", EmptyText, "failed", FALSE, "boom") >>
       IN col' = [pc |-> "done", urls |-> urls,
                  extraction_results |-> extraction_results,
                  max_total_chars |-> 5,
                  collation |-> collate(urls, extraction_results, 5)]
    /\ UNCHANGED <<client, dq, chain_calls, orch, ex, req>>

NextCollate == Collate \/ CollateFixture \/ CollateReturn

SpecCollate == InitCollate /\ [][NextCollate]_vars

-----------------------------------------------------------------------------
(* AnswerSynthesizer.synthesize and LangChainClient.synthesize_answer *)

\* Optional values: None is the empty sequence, a value x is <<x>>
Nothing == <<>>
Some(x) == <<x>>

CannedAnswer ==
    <<"I could not find information about that in the retrieved context.">>

DocumentUrls(documents) == [k \in 1..Len(documents) |-> documents[k].url]

\* doc.title or 'Untitled'
TitleOrUntitled(title) == IF title = "" THEN "Untitled" ELSE title

\* one part of the document block: f"[{idx}] Title: ...\nURL: ...\nContent: ..."
BlockPart(idx, doc) ==
    [number |-> idx, title |-> TitleOrUntitled(doc.title), url |-> doc.url,
     content |-> doc.text]

\* _build_document_block: the parts, which "\n\n" joins, numbered from 1
build_document_block(documents) ==
    [k \in 1..Len(documents) |-> BlockPart(k, documents[k])]

\* synthesize on a synthesizer whose model is has_model (an API key was given):
\*   exc             "Exception" when chain.ainvoke raises, else "none"
\*   invoked         whether chain.ainvoke was called
\*   document_block  the document block the chain was invoked with
SynthesizeCitingMarkers(has_model, documents, behaviour, raw_answer) ==
    IF documents = <<>>
    THEN [exc |-> "none", answer |-> CannedAnswer, cited_urls |-> <<>>,
          invoked |-> FALSE, document_block |-> <<>>]
    ELSE IF ~has_model
    THEN [exc |-> "none", answer |-> CannedAnswer,
          cited_urls |-> DocumentUrls(documents), invoked |-> FALSE,
          document_block |-> <<>>]
    ELSE IF behaviour = "invoke_raises"
    THEN [exc |-> "Exception", answer |-> <<>>, cited_urls |-> <<>>, invoked |-> TRUE,
          document_block |-> build_document_block(documents)]
    ELSE [exc |-> "none", answer |-> Strip(raw_answer),
          cited_urls |->
              LET urls == DocumentUrls(documents)
                  digit == <<"1", "2", "3", "4", "5", "6", "7", "8", "9">>
                  marked == {k \in 1..Len(urls) :
                                \E j \in 1..(Len(raw_answer) - 2) :
                                    /\ k <= Len(digit)
                                    /\ SubSeq(raw_answer, j, j + 2) = <<"[", digit[k], "]">>}
                  pos[n \in 0..Len(urls)] ==
                      IF n = 0 THEN <<>>
                      ELSE IF n \in marked THEN Append(pos[n - 1], urls[n])
                      ELSE pos[n - 1]
              IN pos[Len(urls)],
          invoked |-> TRUE,
          document_block |-> build_document_block(documents)]

SynthesizeUngated(has_model, documents, behaviour, raw_answer) ==
    IF behaviour = "invoke_raises"
    THEN [exc |-> "Exception", answer |-> <<>>, cited_urls |-> <<>>, invoked |-> TRUE,
          document_block |-> build_document_block(documents)]
    ELSE [exc |-> "none", answer |-> Strip(raw_answer),
          cited_urls |-> DocumentUrls(documents), invoked |-> TRUE,
          document_block |-> build_document_block(documents)]

synthesize(has_model, documents, behaviour, raw_answer) ==
    IF documents = <<>>
    THEN [exc |-> "none", answer |-> CannedAnswer, cited_urls |-> <<>>,
          invoked |-> FALSE, document_block |-> <<>>]
    ELSE IF ~has_model
    THEN [exc |-> "none", answer |-> CannedAnswer,
          cited_urls |-> DocumentUrls(documents), invoked |-> FALSE,
          document_block |-> <<>>]
    ELSE IF behaviour = "invoke_raises"
    THEN [exc |-> "Exception", answer |-> <<>>, cited_urls |-> <<>>, invoked |-> TRUE,
          document_block |-> build_document_block(documents)]
    ELSE [exc |-> "none", answer |-> Strip(raw_answer),
          cited_urls |-> DocumentUrls(documents), invoked |-> TRUE,
          document_block |-> build_document_block(documents)]

\* LangChainClient.synthesize_answer: None when synthesize raises
synthesize_answer(has_model, documents, behaviour, raw_answer) ==
    LET r == synthesize(has_model, documents, behaviour, raw_answer) IN
    IF r.exc # "none" THEN Nothing
    ELSE Some([answer |-> r.answer, cited_urls |-> r.cited_urls])

-----------------------------------------------------------------------------
(* The /search endpoint *)

\* LangChainConfig defaults, which from_env leaves in place
DefaultMaxSubQueries == 5
per_query_search_results == 2
max_total_search_results == 6
content_extraction_max_total_chars == 20000

\* not request.query or not request.query.strip()
QueryIsEmptyUntrimmed(query) == query = <<>>

QueryIsEmpty(query) == query = <<>> \/ Strip(query) = <<>>

\* orchestrator.run, by its result: failed holds the sub-queries whose search
\* call raises
orchestrator_run(sub_queries, per_query_results, max_total_results, failed) ==
    LET cleaned == CleanSubQueries(sub_queries)
        outcomes == [i \in 1..Len(cleaned) |->
                        SearchOutcome(cleaned[i], per_query_results, i \in failed)]
    IN MultiSearchResponse(cleaned, outcomes,
                           AggregateUrls(outcomes, <<>>, max_total_results))

RECURSIVE OutcomeResults(_)
OutcomeResults(outcomes) ==
    IF outcomes = <<>> THEN <<>>
    ELSE Head(outcomes).results \o OutcomeResults(Tail(outcomes))

RECURSIVE AddSourcesUnseen(_, _)
AddSourcesUnseen(results, sources) ==
    IF results = <<>> THEN sources
    ELSE AddSourcesUnseen(
             Tail(results),
             Append(sources, [title |-> Head(results).title, url |-> Head(results).url,
                              source |-> "web_search"]))

\* the seen_urls walks building sources
RECURSIVE AddSources(_, _)
AddSources(results, sources) ==
    IF results = <<>> THEN sources
    ELSE LET result == Head(results) IN
         AddSources(
             Tail(results),
             IF result.url = "" \/ \E k \in 1..Len(sources) : sources[k].url = result.url
             THEN sources
             ELSE Append(sources, [title |-> result.title, url |-> result.url,
                                   source |-> "web_search"]))

Sources(multi_search) ==
    LET urls == multi_search.aggregated_urls IN
    AddSources([k \in 1..Len(urls) |-> [title |-> <<>>, url |-> urls[k]]],
               AddSources(OutcomeResults(multi_search.per_query_outcomes), <<>>))

\* detail.split(": ", maxsplit=1)
SplitDetail(detail) ==
    LET at == {k \in 1..Len(detail) : detail[k] = ": "} IN
    IF at = {} THEN <<detail>>
    ELSE LET k == CHOOSE k \in at : \A j \in at : k <= j
         IN <<SubSeq(detail, 1, k - 1), SubSeq(detail, k + 1, Len(detail))>>

ExtractedContent(collation) ==
    [k \in 1..Len(collation.documents) |->
        LET doc == collation.documents[k] IN
        [url |-> <<doc.url>>, title |-> doc.title, extracted_text |-> doc.text,
         extraction_method |-> doc.extraction_method, success |-> TRUE,
         error_message |-> Nothing]]
    \o [k \in 1..Len(collation.summary.failure_details) |->
        LET detail == collation.summary.failure_details[k]
            split_detail == SplitDetail(detail)
        IN [url |-> split_detail[1], title |-> "", extracted_text |-> EmptyText,
            extraction_method |-> "failed", success |-> FALSE,
            error_message |-> Some(IF Len(split_detail) > 1 THEN split_detail[2]
                                   ELSE detail)]]

ContentSummaryAlwaysCounting(summary) ==
    IF summary.successes # 0
    THEN <<"Successfully extracted content from ", summary.successes, " out of ",
           summary.total_urls, " sources.">>
         \o <<" ", summary.failures, " extractions failed.">>
    ELSE IF summary.total_urls # 0
    THEN <<"Content extraction failed for all sources.">>
    ELSE <<"No sources available for extraction.">>

\* content_summary, as the pieces the f-strings put together

ContentSummary(summary) ==
    IF summary.successes # 0
    THEN <<"Successfully extracted content from ", summary.successes, " out of ",
           summary.total_urls, " sources.">>
         \o (IF summary.failures # 0
             THEN <<" ", summary.failures, " extractions failed.">>
             ELSE <<>>)
    ELSE IF summary.total_urls # 0
    THEN <<"Content extraction failed for all sources.">>
    ELSE <<"No sources available for extraction.">>

\* what the caller receives: a SearchResponse (status 200) or an HTTPException
Response(status, detail, sources, extracted_content, content_summary, llm_answer, citations, sub_queries) ==
    [status |-> status, detail |-> detail, sources |-> sources,
     extracted_content |-> extracted_content, content_summary |-> content_summary,
     llm_answer |-> llm_answer, citations |-> citations, sub_queries |-> sub_queries]

\* except ValueError: 400 with str(e); except Exception: 500
ErrorResponse(exc, message) ==
    IF exc = "ValueError"
    THEN Response(400, message, <<>>, <<>>, <<>>, Nothing, Nothing, <<>>)
    ELSE Response(500, "Internal server error", <<>>, <<>>, <<>>, Nothing, Nothing, <<>>)

NoResponse == Response(0, "", <<>>, <<>>, <<>>, Nothing, Nothing, <<>>)

\* the synthesize call of a request: its synthesizer, its documents, what the
\* model did and what the call gave
NoSynthesis ==
    [called |-> FALSE, has_model |-> FALSE, documents |-> <<>>, behaviour |-> "returns",
     raw_answer |-> <<>>, result |-> synthesize(FALSE, <<>>, "returns", <<>>)]

SynthesisRecord(has_model, documents, m) ==
    [called |-> TRUE, has_model |-> has_model, documents |-> documents,
     behaviour |-> m[1], raw_answer |-> m[2],
     result |-> synthesize(has_model, documents, m[1], m[2])]

NoStageCalls == [decompose |-> 0, search |-> 0, extraction |-> 0, synthesis |-> 0]

ReqIdle ==
    [pc |-> "idle", query |-> <<>>, sub_queries |-> <<>>,
     multi_search |-> MultiSearchResponse(<<>>, <<>>, <<>>),
     collation |-> collate(<<>>, <<>>, 0),
     synthesis |-> NoSynthesis,
     faults |-> {}, calls |-> NoStageCalls, response |-> NoResponse]

\* Inputs of the endpoint specification
RequestQueries == {<<>>, <<" ", " ">>, <<"a">>, <<" ", "b", " ">>}

RequestOutputs == {JoinLines(<< <<"a">>, <<"-", " ", "b">> >>), <<"c">>, <<>>}

RequestPages ==
    { Page("http_error", 0, 0, FALSE),
      Page("ok", MinExtractedLength + 10, 0, FALSE),
      Page("ok", 0, max_content_length + 1, FALSE),
      Page("ok", MinExtractedLength + 10, 0, TRUE) }

RawAnswers == {<<" ", "o", "k", " ", "[", "1", "]", "\n">>, <<"[", "2", "]">>, <<"n", "o">>}

\* what the decomposition model can do in a call on client c
DecomposeOutcomes(c) ==
    IF ~c.configured THEN {<<"returns", <<>>>>}
    ELSE {<<"invoke_raises", <<>>>>}
         \cup (IF c.chain = "None" THEN {<<"build_raises", <<>>>>} ELSE {})
         \cup {<<"returns", raw>> : raw \in RequestOutputs}

ModelFailed(m) == m[1] \in {"build_raises", "invoke_raises"}

\* what the synthesis model can do for a synthesizer and its documents
SynthesisOutcomes(has_model, documents) ==
    IF ~has_model THEN {<<"returns", <<>>>>}
    ELSE {<<"build_raises", <<>>>>}
         \cup (IF documents = <<>> THEN {<<"returns", <<>>>>}
               ELSE {<<"invoke_raises", <<>>>>}
                    \cup {<<"returns", raw>> : raw \in RawAnswers})

DecomposeRecord(c, user_query, m, r) ==
    [called |-> TRUE, user_query |-> user_query, behaviour |-> m[1],
     raw_output |-> m[2], chain_before |-> c.chain,
     exc |-> r.exc, value |-> r.value, invoked |-> r.invoked]

Init ==
    /\ client \in [configured : BOOLEAN,
                   max_sub_queries : 0..MaxSubQueries,
                   chain : {"None"}]
    /\ dq = NoCall
    /\ chain_calls = 0
    /\ orch = Unused
    /\ ex = Unused
    /\ col = Unused
    /\ req = ReqIdle

\* search(): validation, then LangChainConfig.from_env() and LangChainClient(config)
SearchRequest ==
    /\ req.pc = "idle"
    /\ ~dq.called
    /\ \E query \in RequestQueries, has_key \in BOOLEAN :
        IF QueryIsEmpty(query)
        THEN /\ req' = [ReqIdle EXCEPT
                          !.pc = "responded", !.query = query,
                          !.response = ErrorResponse("ValueError",
                                                     "Search query cannot be empty")]
             /\ UNCHANGED <<client, chain_calls>>
        ELSE /\ req' = [ReqIdle EXCEPT !.pc = "decompose", !.query = query]
             /\ client' = [configured |-> has_key, max_sub_queries |-> DefaultMaxSubQueries,
                           chain |-> "None"]
             /\ chain_calls' = 0
    /\ UNCHANGED <<dq, orch, ex, col>>

\* Stage 2: sub_queries = client.decompose_query(request.query)
SearchDecompose ==
    /\ req.pc = "decompose"
    /\ \E m \in DecomposeOutcomes(client) :
        LET r == decompose_query(client, req.query, m[1], m[2]) IN
        /\ dq' = DecomposeRecord(client, req.query, m, r)
        /\ client' = [client EXCEPT !.chain = r.chain]
        /\ chain_calls' = chain_calls + (IF r.invoked THEN 1 ELSE 0)
        /\ req' = IF r.exc # "none"
                  THEN [req EXCEPT
                          !.pc = "responded",
                          !.calls.decompose = @ + 1,
                          !.response = ErrorResponse(r.exc,
                                           "user_query must be a non-empty string")]
                  ELSE [req EXCEPT
                          !.pc = "search",
                          !.calls.decompose = @ + 1,
                          !.faults = IF ModelFailed(m) THEN @ \cup {"decomposition"}
                                     ELSE @,
                          !.sub_queries = r.value]
    /\ UNCHANGED <<orch, ex, col>>

\* Stage 3: client.generate_multi_search_plan(request.query, orchestrator),
\* which decomposes the query itself and runs the orchestrator on the result
SearchMultiSearch ==
    /\ req.pc = "search"
    /\ \E m \in DecomposeOutcomes(client) :
        LET r == decompose_query(client, req.query, m[1], m[2]) IN
        /\ dq' = DecomposeRecord(client, req.query, m, r)
        /\ client' = [client EXCEPT !.chain = r.chain]
        /\ chain_calls' = chain_calls + (IF r.invoked THEN 1 ELSE 0)
        /\ IF r.exc # "none"
           THEN req' = [req EXCEPT
                          !.pc = "responded",
                          !.calls.decompose = @ + 1,
                          !.response = ErrorResponse(r.exc,
                                           "user_query must be a non-empty string")]
           ELSE \E failed \in SUBSET (1..Len(CleanSubQueries(r.value))) :
                  LET multi_search ==
                          orchestrator_run(r.value, per_query_search_results,
                                           max_total_search_results, failed)
                  IN req' = [req EXCEPT
                               !.pc = "collate",
                               !.calls.decompose = @ + 1,
                               !.calls.search = @ + Len(multi_search.sub_queries),
                               !.faults = @ \cup (IF ModelFailed(m)
                                                  THEN {"decomposition"} ELSE {})
                                            \cup (IF failed # {} THEN {"search"} ELSE {}),
                               !.multi_search = multi_search]
    /\ UNCHANGED <<orch, ex, col>>

\* Stage 4: client.collate_content(multi_search, collator), then
\* extracted_content and content_summary
SearchCollate ==
    /\ req.pc = "collate"
    /\ LET urls == req.multi_search.aggregated_urls IN
       \E pages \in [1..Len(urls) -> RequestPages] :
        LET extraction_results ==
                ValidResults([i \in 1..Len(urls) |->
                                 extract_content_from_single_url(urls[i], pages[i])])
            collation == collate(urls, extraction_results,
                                 content_extraction_max_total_chars)
        IN req' = [req EXCEPT
                     !.pc = "synthesize",
                     !.calls.extraction = @ + Len(urls),
                     !.faults = IF \E i \in 1..Len(extraction_results) :
                                      ~extraction_results[i].success
                                THEN @ \cup {"extraction"} ELSE @,
                     !.collation = collation]
    /\ UNCHANGED <<client, dq, chain_calls, orch, ex, col>>

\* Stage 5: AnswerSynthesizer(...) and client.synthesize_answer(...), then the
\* SearchResponse
SearchSynthesize ==
    /\ req.pc = "synthesize"
    /\ \E m \in SynthesisOutcomes(client.configured, req.collation.documents) :
        LET built == m[1] # "build_raises"
            synthesized_answer ==
                IF built
                THEN synthesize_answer(client.configured, req.collation.documents,
                                       m[1], m[2])
                ELSE Nothing
            llm_answer ==
                IF synthesized_answer # Nothing
                THEN Some([answer |-> synthesized_answer[1].answer, success |-> TRUE,
                           error_message |-> Nothing])
                ELSE Nothing
            citations ==
                IF synthesized_answer # Nothing
                THEN Some(synthesized_answer[1].cited_urls)
                ELSE Nothing
        IN req' = [req EXCEPT
                     !.pc = "responded",
                     !.calls.synthesis = @ + (IF built THEN 1 ELSE 0),
                     !.synthesis =
                         IF built
                         THEN SynthesisRecord(client.configured,
                                              req.collation.documents, m)
                         ELSE @,
                     !.faults = IF ModelFailed(m) THEN @ \cup {"synthesis"} ELSE @,
                     !.response = Response(200, "", Sources(req.multi_search),
                                           ExtractedContent(req.collation),
                                           ContentSummary(req.collation.summary),
                                           llm_answer, citations, req.sub_queries)]
    /\ UNCHANGED <<client, dq, chain_calls, orch, ex, col>>

\* the response is sent; the request's client and its last call are dropped
SearchReturn ==
    /\ req.pc = "responded"
    /\ req' = ReqIdle
    /\ dq' = NoCall
    /\ UNCHANGED <<client, chain_calls, orch, ex, col>>

\* between requests a client also takes direct decompose_query calls
ClientDecompose ==
    /\ req.pc = "idle"
    /\ DecomposeQuery

ClientReturn ==
    /\ req.pc = "idle"
    /\ DecomposeReturn

Next ==
    \/ SearchRequest
    \/ SearchDecompose
    \/ SearchMultiSearch
    \/ SearchCollate
    \/ SearchSynthesize
    \/ SearchReturn
    \/ ClientDecompose
    \/ ClientReturn

Spec == Init /\ [][Next]_vars

-----------------------------------------------------------------------------
(* Query decomposition: properties under SpecDecompose *)

DecomposeAccepted == dq.called /\ Strip(dq.user_query) # <<>>

\* C3: for a user_query that is non-empty after trimming and a configured
\* max_sub_queries >= 1, decompose_query returns (does not raise) a list of at
\* least 1 and at most max_sub_queries sub-queries, whatever the model does.
C3_SubQueryCount ==
    (DecomposeAccepted /\ client.max_sub_queries >= 1)
        => /\ dq.exc = "none"
           /\ Len(dq.value) >= 1
           /\ Len(dq.value) <= client.max_sub_queries

\* the model emitted more distinct valid lines than the cap allows
C3_Witness ==
    /\ DecomposeAccepted
    /\ client.configured
    /\ client.max_sub_queries >= 1
    /\ dq.behaviour = "returns"
    /\ Len(ParseLinesNoCap(SplitLines(dq.raw_output), <<>>, 0)) > client.max_sub_queries
    /\ Len(dq.value) = client.max_sub_queries

\* C4: decompose_query returns exactly [trim(user_query)] when the model is
\* unconfigured, when the model call raises, and when normalization of the
\* model output yields no entry; an unconfigured client never builds or
\* invokes the decomposition chain.
C4_Fallback ==
    /\ (DecomposeAccepted
            /\ (\/ ~client.configured
                \/ dq.behaviour # "returns"
                \/ parse_decomposition_output(dq.raw_output, client.max_sub_queries) = <<>>))
        => (dq.exc = "none" /\ dq.value = <<Strip(dq.user_query)>>)
    /\ ~client.configured
        => (client.chain = "None" /\ chain_calls = 0 /\ ~dq.invoked)

\* a configured client whose model call raised, on a query that needed trimming
C4_Witness ==
    /\ DecomposeAccepted
    /\ client.configured
    /\ dq.behaviour = "invoke_raises"
    /\ dq.invoked
    /\ dq.user_query # Strip(dq.user_query)
    /\ dq.value = <<Strip(dq.user_query)>>

-----------------------------------------------------------------------------
(* Output parsing: properties under SpecParse *)

Parsed == dq.pc = "parsed"

\* the three sub-queries of tests/test_langchain_client.py:33-37
MarsQueries ==
    << SubSeq(MarsLines[1], 4, Len(MarsLines[1])),
       SubSeq(MarsLines[2], 3, Len(MarsLines[2])),
       MarsLines[4] >>

\* C19: each line of the raw output is normalized as: trim; strip the leading
\* run of characters from {-, U+2022, *, digits, '.', space}; trim again; drop
\* the line when it is now empty, or when its lowercase form is 'queries:' or
\* starts with 'queries'. The lines '1. history of mars', '- history of mars
\* missions', '', 'Mars weather' with max 3 yield the three sub-queries
C19_AsStated ==
    Parsed =>
        LET prefix == {"-", "U+2022", "*", ".", " "} \cup Digits
            normalized(line) == Strip(LStrip(Strip(line), prefix))
            lines == SplitLines(dq.raw_output)
            kept == {k \in 1..Len(lines) :
                        /\ normalized(lines[k]) # <<>>
                        /\ Lower(normalized(lines[k])) # Append(QueriesWord, ":")
                        /\ ~StartsWith(Lower(normalized(lines[k])), QueriesWord)}
        IN /\ \A i \in 1..Len(dq.parsed) :
                 \E k \in kept : dq.parsed[i] = normalized(lines[k])
           /\ Len(lines) <= dq.max_sub_queries =>
                 \A k \in kept : normalized(lines[k]) \in Range(dq.parsed)
           /\ (dq.raw_output = JoinLines(MarsLines) /\ dq.max_sub_queries = 3) =>
                 dq.parsed = MarsQueries

\* the normalized lines that are neither empty nor a header, in emission order
ValidLines(raw_output) ==
    LET lines == SplitLines(raw_output)
    IN SelectSeq([k \in 1..Len(lines) |-> NormalizeLine(lines[k])],
                 LAMBDA c : c # <<>> /\ ~IsQueriesHeader(c))

\* the entries of s, each at its first occurrence only
FirstOccurrences(s) ==
    LET pos[n \in 0..Len(s)] ==
            IF n = 0 THEN <<>>
            ELSE IF \E j \in 1..(n - 1) : s[j] = s[n] THEN pos[n - 1]
            ELSE Append(pos[n - 1], s[n])
    IN pos[Len(s)]

\* C20 as stated: the list returned is the first max_sub_queries distinct
\* normalized lines in emission order, so more than max_sub_queries valid
\* lines yield exactly max_sub_queries entries
C20_AsStated ==
    Parsed =>
        dq.parsed = Take(FirstOccurrences(ValidLines(dq.raw_output)), dq.max_sub_queries)

\* C20: for max_sub_queries >= 1 the list returned is the first max_sub_queries
\* distinct (case-sensitive) normalized lines in emission order: no entry
\* twice, first occurrences in order, exactly max_sub_queries entries when
\* there are more; for max_sub_queries = 0 it is the first valid line alone
C20_FirstDistinctLines ==
    Parsed =>
        LET distinct == FirstOccurrences(ValidLines(dq.raw_output))
            cap == IF dq.max_sub_queries >= 1 THEN dq.max_sub_queries ELSE 1
        IN /\ dq.parsed = Take(distinct, cap)
           /\ \A i, j \in 1..Len(dq.parsed) : i # j => dq.parsed[i] # dq.parsed[j]
           /\ Len(distinct) > cap => Len(dq.parsed) = cap
           /\ (dq.raw_output = <<"a", "\n", "a", "\n", "b">> /\ dq.max_sub_queries >= 2) =>
                 dq.parsed = << <<"a">>, <<"b">> >>

\* 'a\na\nb' parsed with max_sub_queries = 2
C20_Witness ==
    /\ Parsed
    /\ dq.raw_output = <<"a", "\n", "a", "\n", "b">>
    /\ dq.max_sub_queries = 2
    /\ dq.parsed = << <<"a">>, <<"b">> >>

-----------------------------------------------------------------------------
(* Multi-query search: properties under SpecOrch *)

OrchDone == orch.pc = "done" /\ orch.sub_queries # <<>>

Urls(results) == [k \in 1..Len(results) |-> results[k].url]

RECURSIVE Flatten(_)
Flatten(ss) == IF ss = <<>> THEN <<>> ELSE Head(ss) \o Flatten(Tail(ss))

\* the non-empty entries of urls, each at its first occurrence only
FirstSeen(urls) ==
    LET keep == {k \in 1..Len(urls) :
                    urls[k] # "" /\ \A j \in 1..(k - 1) : urls[j] # urls[k]}
        pos[n \in 0..Len(urls)] ==
            IF n = 0 THEN <<>>
            ELSE IF n \in keep THEN Append(pos[n - 1], urls[n]) ELSE pos[n - 1]
    IN pos[Len(urls)]

\* what the search of sub-query i finds, by the index alone
FoundUrls(i) ==
    IF i \in orch.failed THEN <<>>
    ELSE Take(WebIndex(orch.sub_queries[i]), orch.per_query_results)

\* C5: aggregated_urls is the first-seen union of the result URLs walked in
\* sub-query order, whatever order the concurrent searches completed in;
\* a->[u1,u2], b->[u2,u3] always gives [u1,u2,u3].
C5_InputOrderAggregation ==
    OrchDone =>
        /\ orch.response.aggregated_urls =
               Take(FirstSeen(Flatten([i \in 1..Len(orch.sub_queries) |-> FoundUrls(i)])),
                    orch.max_total_results)
        /\ (/\ orch.sub_queries = << <<"a">>, <<"b">> >>
            /\ orch.failed = {}
            /\ orch.per_query_results >= 2
            /\ orch.max_total_results >= 3)
           => orch.response.aggregated_urls = <<"u1", "u2", "u3">>

\* search b came back before search a
C5_Witness ==
    /\ OrchDone
    /\ orch.sub_queries = << <<"a">>, <<"b">> >>
    /\ orch.finished[1].index = 2
    /\ orch.response.aggregated_urls = <<"u1", "u2", "u3">>

\* C6: aggregated_urls has no duplicate and no empty URL, at most
\* max_total_results entries, and only URLs found in some per-query outcome.
C6_AggregatedUrls ==
    orch.pc = "done" =>
        LET agg == orch.response.aggregated_urls
            outcomes == orch.response.per_query_outcomes
        IN /\ \A j, k \in 1..Len(agg) : j # k => agg[j] # agg[k]
           /\ "" \notin Range(agg)
           /\ Len(agg) <= orch.max_total_results
           /\ \A k \in 1..Len(agg) :
                 \E i \in 1..Len(outcomes) : agg[k] \in Range(Urls(outcomes[i].results))

\* the outcomes held an empty URL, a repeated URL and more URLs than the cap
C6_Witness ==
    /\ OrchDone
    /\ LET agg == orch.response.aggregated_urls
           all == Flatten([i \in 1..Len(orch.sub_queries) |->
                              Urls(orch.response.per_query_outcomes[i].results)])
       IN /\ "" \in Range(all)
          /\ \E j, k \in 1..Len(all) : j # k /\ all[j] = all[k] /\ all[j] # ""
          /\ orch.max_total_results >= 1
          /\ Len(agg) = orch.max_total_results
          /\ Range(all) \ (Range(agg) \cup {""}) # {}

\* what outcome i adds to aggregated_urls when outcomes are walked in order
Contribution(outcomes, i, max_total_results) ==
    LET before == AggregateUrls(SubSeq(outcomes, 1, i - 1), <<>>, max_total_results)
        after == AddUrls(outcomes[i].results, before, max_total_results)
    IN SubSeq(after, Len(before) + 1, Len(after))

\* the outcomes of the same run had no search call raised
UnfailedOutcomes ==
    [i \in 1..Len(orch.sub_queries) |->
        SearchOutcome(orch.sub_queries[i], orch.per_query_results, FALSE)]

OutcomesIsolated ==
    LET outcomes == orch.response.per_query_outcomes IN
    /\ Len(outcomes) = Len(orch.sub_queries)
    /\ \A i \in 1..Len(outcomes) :
          /\ i \in orch.failed =>
                (outcomes[i].results = <<>> /\ outcomes[i].error # None)
          /\ i \notin orch.failed => outcomes[i] = UnfailedOutcomes[i]

\* C7 as stated: when a search call raises, every sibling's outcome and its
\* contribution to aggregated_urls are exactly what they would be had no
\* call raised.
C7_AsStated ==
    OrchDone =>
        /\ OutcomesIsolated
        /\ \A i \in 1..Len(orch.sub_queries) \ orch.failed :
              Contribution(orch.response.per_query_outcomes, i, orch.max_total_results)
                  = Contribution(UnfailedOutcomes, i, orch.max_total_results)

\* C7 as amended: when a search call raises, run still returns; the failed
\* outcome has results = [] and an error; every sibling's outcome is exactly
\* what it would be had no call raised, and its contribution to
\* aggregated_urls keeps, in order, every URL it would have contributed then
\* (it may gain URLs the failed sub-query would have supplied or crowded out).
C7_Isolation ==
    OrchDone =>
        /\ OutcomesIsolated
        /\ \A i \in 1..Len(orch.sub_queries) \ orch.failed :
              LET actual == Contribution(orch.response.per_query_outcomes, i,
                                         orch.max_total_results)
                  unfailed == Contribution(UnfailedOutcomes, i, orch.max_total_results)
              IN SelectSeq(actual, LAMBDA u : u \in Range(unfailed)) = unfailed

\* search a raised and its sibling b returned its results
C7_Witness ==
    /\ OrchDone
    /\ orch.sub_queries = << <<"a">>, <<"b">> >>
    /\ orch.failed = {1}
    /\ orch.per_query_results = 2
    /\ orch.response.per_query_outcomes[1].error # None
    /\ Urls(orch.response.per_query_outcomes[2].results) = <<"u2", "u3">>
    /\ orch.response.aggregated_urls = <<"u2", "u3">>

\* every supplied sub-query is blank (the empty list included)
AllBlank(sub_queries) == \A i \in 1..Len(sub_queries) : Strip(sub_queries[i]) = <<>>

\* C16: when every supplied sub-query is blank or whitespace-only, or the list
\* is empty, run returns sub_queries, per_query_outcomes and aggregated_urls
\* all empty and issues no search call
C16_BlankInputNoSearch ==
    (orch.pc # "idle" /\ AllBlank(orch.input)) =>
        /\ orch.pc = "done"
        /\ orch.response.sub_queries = <<>>
        /\ orch.response.per_query_outcomes = <<>>
        /\ orch.response.aggregated_urls = <<>>
        /\ orch.calls = <<>>
        /\ orch.finished = <<>>

\* run was given whitespace-only sub-queries and positive limits
C16_Witness ==
    /\ orch.pc = "done"
    /\ Len(orch.input) >= 1
    /\ AllBlank(orch.input)
    /\ orch.per_query_results >= 1
    /\ orch.max_total_results >= 1
    /\ orch.response = MultiSearchResponse(<<>>, <<>>, <<>>)
    /\ orch.calls = <<>>

\* the supplied sub-queries that are not blank, trimmed, in the supplied order
NonBlankTrimmed(sub_queries) ==
    LET pos[n \in 0..Len(sub_queries)] ==
            IF n = 0 THEN <<>>
            ELSE IF Strip(sub_queries[n]) = <<>> THEN pos[n - 1]
            ELSE Append(pos[n - 1], Strip(sub_queries[n]))
    IN pos[Len(sub_queries)]

\* C18: run returns exactly one outcome per non-blank sub-query, in the order
\* of the filtered trimmed input; each successful outcome holds the first
\* per_query_results results of its search with no error, and the
\* max_total_results cap removes no result from any outcome
C18_OneOutcomePerSubQuery ==
    orch.pc = "done" =>
        LET response == orch.response
            outcomes == response.per_query_outcomes
        IN /\ response.sub_queries = NonBlankTrimmed(orch.input)
           /\ Len(outcomes) = Len(response.sub_queries)
           /\ \A i \in 1..Len(outcomes) :
                 /\ outcomes[i].query = response.sub_queries[i]
                 /\ outcomes[i].error = None =>
                       Urls(outcomes[i].results)
                           = Take(WebIndex(outcomes[i].query), orch.per_query_results)
                 /\ (outcomes[i].error = None) = (i \notin orch.failed)

\* a blank entry was dropped, both searches came back, and an outcome holds
\* more results than max_total_results lets into aggregated_urls
C18_Witness ==
    /\ orch.pc = "done"
    /\ Len(orch.input) > Len(orch.response.sub_queries)
    /\ Len(orch.response.per_query_outcomes) >= 1
    /\ \E i \in 1..Len(orch.response.per_query_outcomes) :
          LET outcome == orch.response.per_query_outcomes[i]
          IN /\ outcome.error = None
             /\ Len(outcome.results) = orch.per_query_results
             /\ Len(outcome.results) > orch.max_total_results
             /\ orch.max_total_results >= 1

-----------------------------------------------------------------------------
(* Content extraction: properties under SpecExtract *)

Extracting == {i \in 1..Len(ex.task) : ex.task[i] = "extracting"}

\* a page gives content when it is fetched and one extractor passes the gate
GivesContent(page) ==
    /\ page.fetch = "ok"
    /\ page.trafilatura > MinExtractedLength \/ page.soup > MinExtractedLength

\* C8: extract_content_from_urls returns exactly one result per input URL;
\* an exception raised while one URL is extracted becomes a failed result
\* (success false, error set) for that URL, and the results of the other
\* URLs are what their pages give.
C8_OneResultPerUrl ==
    ex.pc = "done" =>
        /\ Len(ex.returned) = Len(ex.urls)
        /\ \A i \in 1..Len(ex.returned) :
              /\ ex.returned[i].url = ex.urls[i]
              /\ ex.pages[i].raises =>
                    (~ex.returned[i].success /\ ex.returned[i].error_message # None)
              /\ ~ex.pages[i].raises =>
                    (ex.returned[i].success <=> GivesContent(ex.pages[i]))

\* one URL raised while another URL of the batch was extracted with success
C8_Witness ==
    /\ ex.pc = "done"
    /\ \E i, j \in 1..Len(ex.urls) :
          /\ ex.pages[i].raises
          /\ ~ex.returned[i].success
          /\ ex.returned[j].success

\* C9: at most max_concurrent single-URL extractions are in progress at any
\* moment of a batch.
C9_BoundedConcurrency ==
    ex.pc = "running" => Cardinality(Extracting) <= ex.max_concurrent

\* every slot is taken and a further URL waits for one
C9_Witness ==
    /\ ex.pc = "running"
    /\ ex.max_concurrent >= 1
    /\ Cardinality(Extracting) = ex.max_concurrent
    /\ \E i \in 1..Len(ex.task) : ex.task[i] = "waiting"

\* the tasks of the batch that have ended
Ended == {i \in 1..Len(ex.task) : ex.task[i] = "done"}

\* C22: for a single URL the extractor decides in this order: a fetch failure
\* (status, content type or network) gives success false with empty text and
\* nothing extracted; otherwise the primary extractor's text is accepted when
\* it passes the minimum-length gate (method 'trafilatura'); the fallback's
\* text is taken only when the primary gave nothing usable (method
\* 'beautifulsoup'); when both give nothing the result is a failure with error
\* 'No content could be extracted'. A successful result always has non-empty
\* text, a failed result always has empty text and a non-null error
C22_ExtractionOrder ==
    ex.pc = "running" =>
        \A i \in Ended :
            LET page == ex.pages[i]
                result == ex.results[i]
                primary == page.trafilatura > MinExtractedLength
                fallback == page.soup > MinExtractedLength
            IN /\ (~page.raises /\ page.fetch # "ok") =>
                     /\ ~result.success
                     /\ result.extracted_text = EmptyText
                     /\ result.extraction_method = "failed"
                     /\ result.error_message = "Failed to fetch HTML content"
               /\ (~page.raises /\ page.fetch = "ok" /\ primary) =>
                     /\ result.success
                     /\ result.extraction_method = "trafilatura"
               /\ (~page.raises /\ page.fetch = "ok" /\ ~primary /\ fallback) =>
                     /\ result.success
                     /\ result.extraction_method = "beautifulsoup"
               /\ (~page.raises /\ page.fetch = "ok" /\ ~primary /\ ~fallback) =>
                     /\ ~result.success
                     /\ result.error_message = "No content could be extracted"
               /\ result.success => result.extracted_text.len > 0
               /\ ~result.success =>
                     (result.extracted_text = EmptyText /\ result.error_message # None)

\* the primary extractor found text below the gate and the fallback's text was
\* taken, while for a sibling the network failed on a page with content
C22_Witness ==
    /\ ex.pc = "running"
    /\ \E i, j \in Ended :
          /\ ex.pages[i].fetch = "ok"
          /\ ex.pages[i].trafilatura > 0
          /\ ex.results[i].extraction_method = "beautifulsoup"
          /\ ex.pages[j].fetch = "network_error"
          /\ ex.pages[j].trafilatura > MinExtractedLength
          /\ ~ex.results[j].success

\* C23: accepted text longer than max_content_length is cut to
\* max_content_length characters and an ellipsis marker is appended; other
\* accepted text is returned unchanged; the cap depends on nothing but the
\* text and max_content_length
C23_PerDocumentCap ==
    ex.pc = "running" =>
        \A i \in Ended :
            ex.results[i].success =>
                LET page == ex.pages[i]
                    accepted == IF page.trafilatura > MinExtractedLength
                                THEN page.trafilatura ELSE page.soup
                    text == ex.results[i].extracted_text
                IN /\ accepted > max_content_length =>
                         text.len = max_content_length + EllipsisLength
                   /\ accepted <= max_content_length => text.len = accepted
                   /\ text.src = ex.urls[i]

\* one document was cut on the primary path and one on the fallback path,
\* next to a document returned whole
C23_Witness ==
    /\ ex.pc = "running"
    /\ \E i, j, k \in Ended :
          /\ ex.results[i].extraction_method = "trafilatura"
          /\ ex.results[i].extracted_text.len = max_content_length + EllipsisLength
          /\ ex.results[j].extraction_method = "beautifulsoup"
          /\ ex.results[j].extracted_text.len = max_content_length + EllipsisLength
          /\ ex.results[k].success
          /\ ex.results[k].extracted_text.len < max_content_length

\* the collation of what the batch returned, under a budget
CollationOfBatch(max_total_chars) == collate(ex.urls, ex.returned, max_total_chars)

\* budgets around the lengths the pages give: none, less than one text, one
\* text and a part of the next, and the configured budget
BatchBudgets ==
    {0, MinExtractedLength, 2 * MinExtractedLength + 30, content_extraction_max_total_chars}

\* C26: the collated documents are in the relative order of their URLs in
\* aggregated_urls, and concatenated_text joins their texts in that order
\* with a blank line, whatever order the concurrent extractions end in: the
\* collation, and so which documents survive the budget, is fixed by the URLs
\* and the pages they serve, the same for every interleaving
C26_UrlOrder ==
    ex.pc = "done" =>
        \A max_total_chars \in BatchBudgets :
            LET documents == CollationOfBatch(max_total_chars).documents
                in_url_order ==
                    [i \in 1..Len(ex.urls) |->
                        extract_content_from_single_url(ex.urls[i], ex.pages[i])]
            IN /\ \E at \in [1..Len(documents) -> 1..Len(ex.urls)] :
                     /\ \A k \in 1..Len(documents) :
                           /\ documents[k].url = ex.urls[at[k]]
                           /\ documents[k].text.src = ex.returned[at[k]].extracted_text.src
                     /\ \A k \in 1..(Len(documents) - 1) : at[k] < at[k + 1]
               /\ CollationOfBatch(max_total_chars).concatenated_text = JoinTexts(documents)
               /\ CollationOfBatch(max_total_chars)
                     = collate(ex.urls, in_url_order, max_total_chars)

\* the extraction of the third URL was the first to end; under a budget
\* of 130 characters the first two URLs' documents are kept, in URL order, the
\* second cut, and the third URL's document is left out
C26_Witness ==
    /\ ex.pc = "done"
    /\ ex.first_done = 3
    /\ \A i \in 1..3 : ex.returned[i].success
    /\ LET collation == CollationOfBatch(2 * MinExtractedLength + 30) IN
          /\ DocumentUrls(collation.documents) = <<ex.urls[1], ex.urls[2]>>
          /\ collation.summary.truncated = 1

\* C29: extract_content_from_urls eventually returns, for every non-empty URL
\* list and every max_concurrent it is given, when each fetch eventually
\* completes or fails: no URL waits for a slot forever, and a slot is given
\* back when an extraction fails as well as when it succeeds
C29_AsStated ==
    /\ (ex.pc = "running") ~> (ex.pc = "done")
    /\ <>[](\A i \in 1..Len(ex.task) : ex.task[i] # "waiting")
    /\ [](ex.pc = "done" /\ ex.urls # <<>> => ex.semaphore = ex.max_concurrent)

\* C29, with the semaphore it holds for: when max_concurrent is at least 1 the
\* batch eventually returns, every waiting URL eventually gets a slot, and by
\* the return every slot has been given back, after failed extractions as
\* after successful ones. (With max_concurrent = 0 no task ever enters the
\* semaphore and the call never returns; a negative max_concurrent raises
\* ValueError before any task is made.)
C29_ReturnsWithSlots ==
    /\ (ex.pc = "running" /\ ex.max_concurrent >= 1) ~> (ex.pc = "done")
    /\ <>[](ex.max_concurrent >= 1 =>
                \A i \in 1..Len(ex.task) : ex.task[i] # "waiting")
    /\ [](ex.pc = "done" /\ ex.urls # <<>> => ex.semaphore = ex.max_concurrent)

\* three URLs went through one slot, the first extraction to end having
\* failed and a later one succeeded, and the batch returned with the slot free
C29_Witness ==
    /\ ex.pc = "done"
    /\ ex.max_concurrent = 1
    /\ Len(ex.urls) = 3
    /\ ~ex.returned[ex.first_done].success
    /\ \E i \in 1..3 : ex.returned[i].success
    /\ ex.semaphore = 1

-----------------------------------------------------------------------------
(* Fan-out: properties under SpecFanOut *)

\* what holds of a run and of a batch in every state: one call per sub-query,
\* one task per URL, nothing collected while a sibling is still out
FanOutLaunched ==
    /\ orch.pc \in {"searching", "done"} =>
          /\ Len(orch.calls) = Len(orch.sub_queries)
          /\ \A i \in 1..Len(orch.calls) : orch.calls[i][1] = orch.sub_queries[i]
          /\ \A j, k \in 1..Len(orch.finished) :
                orch.finished[j].index = orch.finished[k].index => j = k
          /\ orch.pending # {} => orch.response = None
          /\ orch.pc = "done" =>
                {orch.finished[k].index : k \in 1..Len(orch.finished)}
                    = 1..Len(orch.sub_queries)
    /\ ex.pc = "running" =>
          /\ Len(ex.task) = Len(ex.urls)
          /\ ex.returned = <<>>

\* what every step of a run and of a batch does: a search comes back once, a
\* task goes from waiting to extracting to done and never back
FanOutStep ==
    /\ (orch.pc = "searching" /\ orch'.pc = "searching") =>
          /\ orch'.calls = orch.calls
          /\ orch'.pending \subseteq orch.pending
          /\ Len(orch'.finished) = Len(orch.finished) + 1
          /\ SubSeq(orch'.finished, 1, Len(orch.finished)) = orch.finished
          /\ orch'.finished[Len(orch'.finished)].index \in orch.pending \ orch'.pending
    /\ (ex.pc = "running" /\ ex'.pc \in {"running", "done"}) =>
          \A i \in 1..Len(ex.urls) :
              /\ ex.task[i] = "done" =>
                    (ex'.task[i] = "done" /\ ex'.pages[i] = ex.pages[i]
                        /\ ex'.results[i] = ex.results[i])
              /\ ex.task[i] = "extracting" => ex'.task[i] \in {"extracting", "done"}

\* C21: no retries, and the fan-out is real: in one orchestrator run every
\* non-blank sub-query is searched exactly once, in one batch extraction every
\* URL is fetched at most once, and all sibling calls of a fan-out are started
\* before the result of any of them is collected
C21_NoRetryFanOut ==
    /\ []FanOutLaunched
    /\ [][FanOutStep]_<<orch.pc, IF orch.pc = "unused" THEN {} ELSE orch.pending,
                        ex.pc, IF ex.pc = "unused" THEN <<>> ELSE ex.task>>

\* a batch in which one URL has failed and is done while a sibling, started
\* with it, is still being extracted
C21_Witness ==
    /\ ex.pc = "running"
    /\ \E i, j \in 1..Len(ex.urls) :
          /\ ex.task[i] = "done"
          /\ ~ex.results[i].success
          /\ ex.task[j] = "extracting"

-----------------------------------------------------------------------------
(* Content collation: properties under SpecCollate *)

RECURSIVE SumLen(_)
SumLen(documents) ==
    IF documents = <<>> THEN 0 ELSE Head(documents).text.len + SumLen(Tail(documents))

\* C10: for any extraction results and any max_total_chars >= 0, the text
\* lengths of the collated documents sum to at most max_total_chars and
\* every collated document has a non-empty text.
C10_CharacterBudget ==
    (col.pc = "done" /\ col.max_total_chars >= 0) =>
        /\ SumLen(col.collation.documents) <= col.max_total_chars
        /\ \A k \in 1..Len(col.collation.documents) :
              col.collation.documents[k].text.len > 0

\* the extracted texts together exceed the budget and one was cut to fit
C10_Witness ==
    /\ col.pc = "done"
    /\ col.max_total_chars >= 1
    /\ Len(col.collation.documents) >= 2
    /\ col.collation.summary.truncated = 1
    /\ SumLen(col.collation.documents) = col.max_total_chars

\* the failure detail of every failed result, in result order
AllFailureDetails(results) ==
    LET failed == SelectSeq(results, LAMBDA r : ~r.success)
    IN [k \in 1..Len(failed) |-> <<failed[k].url, ": ", failed[k].error_message>>]

IsPrefix(s, t) == Len(s) <= Len(t) /\ SubSeq(t, 1, Len(s)) = s

\* C11: collate reports total_urls = len(aggregated_urls), successes =
\* len(documents) and failures = total_urls - len(documents), so that
\* successes + failures = total_urls and failures >= 0; failure_details holds
\* one "<url>: <error>" entry per failed result walked, in walk order, and
\* never more entries than failures.
C11_SummaryCounts ==
    col.pc = "done" =>
        LET summary == col.collation.summary
            documents == col.collation.documents
        IN /\ summary.total_urls = Len(col.urls)
           /\ summary.successes = Len(documents)
           /\ summary.failures = summary.total_urls - Len(documents)
           /\ summary.successes + summary.failures = summary.total_urls
           /\ summary.failures >= 0
           /\ IsPrefix(summary.failure_details, AllFailureDetails(col.extraction_results))
           /\ Len(summary.failure_details) <= summary.failures

\* a failed result was recorded, a successful result with no text was
\* skipped, and a document was kept
C11_Witness ==
    /\ col.pc = "done"
    /\ Len(col.collation.documents) >= 1
    /\ Len(col.collation.summary.failure_details) >= 1
    /\ Len(col.collation.summary.failure_details) < col.collation.summary.failures
    /\ \E i \in 1..Len(col.extraction_results) :
          /\ col.extraction_results[i].success
          /\ col.extraction_results[i].extracted_text.len = 0

\* C17: when aggregated_urls is empty, collate returns documents = [],
\* concatenated_text = '' and a summary whose total_urls, successes, failures
\* and truncated are all 0, without calling the extractor
C17_NoUrlsNoExtraction ==
    (col.pc = "done" /\ col.urls = <<>>) =>
        /\ col.collation.documents = <<>>
        /\ col.collation.concatenated_text = <<>>
        /\ col.collation.summary.total_urls = 0
        /\ col.collation.summary.successes = 0
        /\ col.collation.summary.failures = 0
        /\ col.collation.summary.truncated = 0
        /\ col.collation.summary.failure_details = <<>>
        /\ ~col.collation.extractor_called

\* collate was called with no URL and a positive character budget
C17_Witness ==
    /\ col.pc = "done"
    /\ col.urls = <<>>
    /\ col.max_total_chars >= 1
    /\ col.collation.documents = <<>>
    /\ ~col.collation.extractor_called

\* the successful results with a non-empty text, in result order
NonEmptySuccesses(results) ==
    SelectSeq(results, LAMBDA r : r.success /\ r.extracted_text.len > 0)

\* the budget left when the k-th document is reached
Remaining(k) == col.max_total_chars - SumLen(SubSeq(col.collation.documents, 1, k - 1))

\* the k-th document is its source text, cut to the budget left when longer
CutToRemaining(k) ==
    LET source == NonEmptySuccesses(col.extraction_results)[k].extracted_text
        text == col.collation.documents[k].text
    IN /\ text.src = source.src
       /\ text.len = IF source.len > Remaining(k) THEN Remaining(k) ELSE source.len

\* C24 as stated: a document longer than the remaining budget is cut to
\* exactly the remaining characters and the truncated count goes up by one
C24_AsStated ==
    (col.pc = "done" /\ col.max_total_chars >= 0) =>
        LET sources == NonEmptySuccesses(col.extraction_results)
        IN /\ \A k \in 1..Len(col.collation.documents) : CutToRemaining(k)
           /\ (sources # <<>> /\ sources[1].extracted_text.len > col.max_total_chars) =>
                 col.collation.summary.truncated >= 1

\* C24: while budget is left (remaining >= 1), a document longer than the
\* remaining budget is cut to exactly its first 'remaining' characters and the
\* truncated count goes up by one; a 10-character document under
\* max_total_chars = 5 yields a 5-character document and truncated = 1. With
\* no budget at all (max_total_chars <= 0) nothing is kept or counted
C24_BudgetTruncation ==
    col.pc = "done" =>
        LET sources == NonEmptySuccesses(col.extraction_results)
            documents == col.collation.documents
        IN /\ col.max_total_chars >= 1 =>
                 /\ Len(documents) <= Len(sources)
                 /\ \A k \in 1..Len(documents) : Remaining(k) >= 1 /\ CutToRemaining(k)
                 /\ col.collation.summary.truncated =
                        Cardinality({k \in 1..Len(documents) :
                                        sources[k].extracted_text.len > Remaining(k)})
           /\ col.max_total_chars <= 0 =>
                 (documents = <<>> /\ col.collation.summary.truncated = 0)
           /\ (sources # <<>> /\ sources[1].extracted_text.len = 10
                   /\ col.max_total_chars = 5) =>
                 (documents[1].text.len = 5 /\ col.collation.summary.truncated = 1)

\* the 10-character document under max_total_chars = 5
C24_Witness ==
    /\ col.pc = "done"
    /\ col.max_total_chars = 5
    /\ Len(col.extraction_results) = 2
    /\ Len(col.collation.documents) = 1
    /\ col.extraction_results[1].extracted_text.len = 10
    /\ col.collation.documents[1].text.len = 5
    /\ col.collation.summary.truncated = 1

\* the result whose text brings the running total from below max_total_chars
\* up to it, or 0 when the total never gets there
StopIndex ==
    LET results == col.extraction_results
        total[n \in 0..Len(results)] ==
            IF n = 0 THEN 0
            ELSE total[n - 1]
                    + (IF results[n].success THEN results[n].extracted_text.len ELSE 0)
        reached == {p \in 1..Len(results) :
                       total[p - 1] < col.max_total_chars /\ total[p] >= col.max_total_chars}
    IN IF reached = {} THEN 0 ELSE CHOOSE p \in reached : \A q \in reached : p <= q

\* C25: collate stops walking the extraction results as soon as the running
\* character total reaches max_total_chars: no later result is processed, so
\* it gives neither a document nor a failure_details entry, whether it would
\* fit in the budget or is a failed extraction
C25_StopsAtBudget ==
    (col.pc = "done" /\ StopIndex > 0) =>
        LET walked == SubSeq(col.extraction_results, 1, StopIndex)
            sources == NonEmptySuccesses(walked)
            documents == col.collation.documents
        IN /\ Len(documents) = Len(sources)
           /\ \A k \in 1..Len(documents) :
                 /\ documents[k].url = sources[k].url
                 /\ documents[k].text.src = sources[k].extracted_text.src
           /\ col.collation.summary.failure_details = AllFailureDetails(walked)
           /\ SumLen(documents) = col.max_total_chars

\* the first document fills the budget; a failed extraction and a non-empty
\* text come after it and leave no trace
C25_Witness ==
    /\ col.pc = "done"
    /\ StopIndex = 1
    /\ Len(col.extraction_results) = 3
    /\ ~col.extraction_results[2].success
    /\ col.extraction_results[3].success
    /\ col.extraction_results[3].extracted_text.len > 0
    /\ Len(col.collation.documents) = 1
    /\ col.collation.summary.failure_details = <<>>
    /\ col.collation.summary.failures = 2

\* C30: in any collation at most one document is truncated: summary.truncated
\* is 0 or 1; when it is 1 the truncated document is the last entry of
\* documents and the lengths of the documents' texts add up to exactly
\* max_total_chars
C30_OneTruncationAtEnd ==
    col.pc = "done" =>
        LET documents == col.collation.documents
            sources == NonEmptySuccesses(col.extraction_results)
            Cut(k) == documents[k].text.len < sources[k].extracted_text.len
        IN /\ col.collation.summary.truncated \in {0, 1}
           /\ col.collation.summary.truncated
                 = Cardinality({k \in 1..Len(documents) : Cut(k)})
           /\ \A k \in 1..Len(documents) : Cut(k) =>
                 /\ k = Len(documents)
                 /\ SumLen(documents) = col.max_total_chars

\* the second of two documents is cut to what the first left of the budget,
\* and a further text that was extracted is not collated
C30_Witness ==
    /\ col.pc = "done"
    /\ Len(col.extraction_results) = 3
    /\ \A i \in 1..3 : col.extraction_results[i].success
                        /\ col.extraction_results[i].extracted_text.len >= 2
    /\ Len(col.collation.documents) = 2
    /\ col.collation.documents[1].text = col.extraction_results[1].extracted_text
    /\ col.collation.documents[2].text.len < col.extraction_results[2].extracted_text.len
    /\ col.collation.summary.truncated = 1

-----------------------------------------------------------------------------
(* The /search endpoint: properties under Spec *)

Responded == req.pc = "responded"

C2_EmptyQueryRejected ==
    /\ (dq.called /\ Strip(dq.user_query) = <<>>) =>
          /\ dq.exc = "ValueError"
          /\ ~dq.invoked
          /\ client.chain = dq.chain_before
    /\ (Responded /\ Strip(req.query) = <<>>) =>
          /\ req.response.status = 400
          /\ req.response.detail = "Search query cannot be empty"
          /\ req.calls = NoStageCalls

\* a whitespace-only query was answered 400
C2_Witness ==
    /\ Responded
    /\ req.query # <<>>
    /\ Strip(req.query) = <<>>
    /\ req.response.status = 400

\* the synthesize call of the request has returned an answer from the model
Synthesized ==
    /\ req.pc = "responded"
    /\ req.synthesis.called
    /\ req.synthesis.has_model
    /\ req.synthesis.documents # <<>>
    /\ req.synthesis.result.exc = "none"

\* C12: with a configured model and N >= 1 documents, synthesize returns as
\* cited_urls the URLs of the documents in document order (N of them) whatever
\* the answer text is, and the source numbered [i] in the prompt's document
\* block is the document whose URL is cited_urls[i-1] (0-based)
C12_CitedUrlsAreDocumentUrls ==
    Synthesized =>
        LET documents == req.synthesis.documents
            result == req.synthesis.result
            block == result.document_block
        IN /\ result.invoked
           /\ Len(result.cited_urls) = Len(documents)
           /\ \A i \in 1..Len(documents) : result.cited_urls[i] = documents[i].url
           /\ Len(block) = Len(documents)
           /\ {part.number : part \in Range(block)} = 1..Len(documents)
           /\ \A k \in 1..Len(block) :
                 /\ block[k].url = result.cited_urls[block[k].number]
                 /\ block[k].content = documents[block[k].number].text

\* two documents were synthesized and the answer marks only source [2]
C12_Witness ==
    /\ Synthesized
    /\ Len(req.synthesis.documents) = 2
    /\ req.synthesis.documents[1].url # req.synthesis.documents[2].url
    /\ req.synthesis.raw_answer = <<"[", "2", "]">>
    /\ req.response.citations = Some(DocumentUrls(req.synthesis.documents))

\* C13: synthesize makes no model call and returns the canned sentence when
\* the documents are empty (cited_urls empty, also when the model is not
\* configured) and when the model is not configured but documents exist
\* (cited_urls all document URLs in order)
C13_CannedWithoutModelCall ==
    (req.synthesis.called
        /\ (req.synthesis.documents = <<>> \/ ~req.synthesis.has_model)) =>
        LET documents == req.synthesis.documents
            result == req.synthesis.result
        IN /\ ~result.invoked
           /\ result.exc = "none"
           /\ result.answer = CannedAnswer
           /\ (documents = <<>> => result.cited_urls = <<>>)
           /\ (documents # <<>> => result.cited_urls = DocumentUrls(documents))

\* a synthesizer without a model was given two documents
C13_Witness ==
    /\ req.pc = "responded"
    /\ req.synthesis.called
    /\ ~req.synthesis.has_model
    /\ Len(req.synthesis.documents) = 2
    /\ req.synthesis.result.cited_urls = DocumentUrls(req.synthesis.documents)
    /\ req.response.llm_answer # Nothing
    /\ req.response.llm_answer[1].answer = CannedAnswer

\* the synthesis model call of the request raised
SynthesisCallFailed ==
    /\ req.pc = "responded"
    /\ req.synthesis.called
    /\ req.synthesis.result.invoked
    /\ req.synthesis.result.exc # "none"

\* C14: when the synthesis model call fails in a run for a non-empty query, the
\* response still carries llm_answer holding the canned message and citations
\* as an empty list, neither of them absent
C14_AsStated ==
    SynthesisCallFailed =>
        /\ req.response.llm_answer # Nothing
        /\ req.response.llm_answer[1].answer = CannedAnswer
        /\ req.response.citations = Some(<<>>)

\* the pipeline of the request ran to its response
PipelineResponded == req.pc = "responded" /\ req.response.status = 200

\* C15: content_summary is 'No sources available for extraction.' when
\* total_urls = 0, 'Content extraction failed for all sources.' when
\* total_urls > 0 and successes = 0, and otherwise 'Successfully extracted
\* content from X out of Y sources.' followed by ' Z extractions failed.'
\* exactly when failures Z > 0
C15_ContentSummaryText ==
    PipelineResponded =>
        LET summary == req.collation.summary
            text == req.response.content_summary
            extracted == <<"Successfully extracted content from ", summary.successes,
                           " out of ", summary.total_urls, " sources.">>
        IN /\ summary.total_urls = 0 =>
                 text = <<"No sources available for extraction.">>
           /\ (summary.total_urls > 0 /\ summary.successes = 0) =>
                 text = <<"Content extraction failed for all sources.">>
           /\ (summary.total_urls > 0 /\ summary.successes > 0 /\ summary.failures > 0) =>
                 text = extracted \o <<" ", summary.failures, " extractions failed.">>
           /\ (summary.total_urls > 0 /\ summary.successes > 0 /\ summary.failures <= 0) =>
                 text = extracted

\* 2 successes of 3 URLs
C15_Witness ==
    /\ PipelineResponded
    /\ req.collation.summary.total_urls = 3
    /\ req.collation.summary.successes = 2
    /\ req.response.content_summary =
           <<"Successfully extracted content from ", 2, " out of ", 3, " sources.",
             " ", 1, " extractions failed.">>

\* C27: the sub_queries list of a /search response is the list that was sent
\* to web search in that request: the query is decomposed once per request
\* and that result is the one the orchestrator is run on, also when the
\* model's output differs from one call to the next
C27_AsStated ==
    PipelineResponded =>
        /\ req.calls.decompose = 1
        /\ req.response.sub_queries = req.multi_search.sub_queries

\* C28: in every /search response the citations, when present, have no
\* duplicate and each cited URL is the URL of a collated document; each
\* collated document's URL is in aggregated_urls; each aggregated URL appears
\* in sources; and sources has no duplicate URL and no empty URL
C28_UrlThreading ==
    PipelineResponded =>
        LET Distinct(s) == \A i, j \in 1..Len(s) : s[i] = s[j] => i = j
            citations == req.response.citations
            document_urls == DocumentUrls(req.collation.documents)
            aggregated_urls == req.multi_search.aggregated_urls
            source_urls == DocumentUrls(req.response.sources)
        IN /\ citations # Nothing =>
                 /\ Distinct(citations[1])
                 /\ Range(citations[1]) \subseteq Range(document_urls)
           /\ Range(document_urls) \subseteq Range(aggregated_urls)
           /\ Range(aggregated_urls) \subseteq Range(source_urls)
           /\ Distinct(source_urls)
           /\ "" \notin Range(source_urls)

\* two sub-queries found the same URL; it is one source, one document and one
\* citation, between the URLs only one of them found
C28_Witness ==
    /\ PipelineResponded
    /\ Len(req.multi_search.per_query_outcomes) = 2
    /\ \E i \in 1..Len(req.multi_search.per_query_outcomes[1].results),
          j \in 1..Len(req.multi_search.per_query_outcomes[2].results) :
          req.multi_search.per_query_outcomes[1].results[i].url
              = req.multi_search.per_query_outcomes[2].results[j].url
    /\ DocumentUrls(req.response.sources) = <<"u1", "u2", "u3">>
    /\ req.response.citations = Some(<<"u1", "u2", "u3">>)

====
